---- MODULE Spec2Model ----
(***************************************************************************)
(* Model of the upload pipeline (src/src/cli.ts: uploadFile, uploadPart,   *)
(* uploadMultipartFile, uploadModelFiles, getFilesInDirectory), of the     *)
(* endpoint readiness probe (src/src/sandbox/cpu-sandbox.ts:               *)
(* waitForEndpoint), and of the client: Buildfunctions(config) with the     *)
(* module-level configuration it sets, and the CPU and GPU sandboxes        *)
(* (cpu-sandbox.ts, gpu-sandbox.ts: create, run, upload, delete).           *)
(*                                                                         *)
(* JavaScript runs the code of one promise continuation to its next await  *)
(* without interleaving, so every action below is one such run: the        *)
(* arrival of one I/O result together with all the synchronous code and    *)
(* promise continuations it triggers.                                      *)
(*                                                                         *)
(* Bytes are modelled by their offset: a buffer of length S is the         *)
(* sequence <<1, ..., S>>.  A URL of a signedUrl list is modelled by a     *)
(* positive number, the empty string by 0.  An ETag header value is a      *)
(* sequence of characters, the double quote being the character 0.        *)
(***************************************************************************)
EXTENDS Integers, Sequences, FiniteSets, TLC

(* ------------------------------ bounds --------------------------------- *)
MaxParts == 6       \* largest numberOfParts / signedUrls length of a direct call
MaxLen == 3         \* largest content length of a direct call
MaxChunk == 2       \* largest value standing for CHUNK_SIZE
MaxFiles == 2       \* largest number of file descriptors of uploadModelFiles
MaxAttempts == 3    \* largest maxAttempts of waitForEndpoint
MaxFileSize == 1    \* largest size of a file of the directory tree
MaxInits == 2       \* largest number of Buildfunctions(config) calls of the host
MaxCalls == 2       \* largest number of run, upload and delete calls on the instance
ProbeCeiling == 1   \* the attempts run() gives its readiness probe (60 in the code)

(* -------------------------- program constants -------------------------- *)
maxParallelUploads == 5

Files == 1..MaxFiles

VARIABLES
  chunkSize,    \* CHUNK_SIZE (cli.ts:32), in bytes of the model
  \* ---- uploadMultipartFile, one call per file f
  mpc,          \* [f] "idle" | "await" | "finalize" | "done" | "failed"
  margs,        \* [f] the call's arguments: content, signedUrls, uploadId, numberOfParts
  bi,           \* [f] the loop variable i of the batch loop
  partSt,       \* [f][partNumber] "idle" | "inflight" | "ok" | "httperr" | "noetag" | "neterr"
  parts,        \* [f] the parts array, in push order
  puts,         \* [f] the part PUT requests issued, in issue order
  finReq,       \* [f] the complete-multipart-upload requests issued
  merr,         \* [f] why the call rejected
  finErr,       \* [f] the message of the Error thrown on the finalize response
  finResp,      \* [f] history: the responses to the finalize requests
  pushOrder,    \* [f] history: the part numbers in the order of the parts.push calls
  respNoEtag,   \* [f] history: the parts whose PUT got a response without an ETag
  \* ---- uploadFile (single-shot), one call per file f
  spc,          \* [f] "idle" | "inflight" | "done" | "failed"
  \* ---- uploadModelFiles
  files,        \* the descriptors: sequence of [size]
  target,       \* [f] presignedUrls[file.webkitRelativePath]
  upc,          \* "idle" | "reading" | "awaitAll" | "resolved" | "rejected"
  fi,           \* index of the file of the current loop iteration
  readSt,       \* [f] "unread" | "reading" | "read" | "failed"
  uploadPromises, \* the uploadPromises array: file indices in push order
  logged,       \* files reported by console.error
  \* ---- waitForEndpoint
  wpc,          \* "idle" | "resolving" | "fetching" | "sleeping" | "returned" | "threw"
  wargs,        \* [urlOk, maxAttempts]
  attempt,      \* the loop variable attempt
  ip,           \* the address the current attempt resolved
  hist,         \* one record per attempt started
  werr,         \* the error waitForEndpoint threw
  \* ---- getFilesInDirectory
  gpc,          \* "idle" | "returned"
  dirPath,      \* the argument dirPath, a path string
  fsTree,       \* the file system below dirPath: [path -> [kind, size]]
  listing,      \* the order in which readdirSync lists names
  found,        \* the files array returned
  \* ---- the module-level configuration and Buildfunctions(config)
  cfg,          \* the module-level variables of the four component modules
  ipc,          \* how many calls are at their await, have resolved, have rejected
  iconf,        \* the config argument of the host's calls
  \* ---- the sandbox of the host
  sbKind,       \* "cpu" | "gpu" | "gpuModel" (a GPU sandbox with a local model)
  createPc,     \* "idle" | "creating" | "uploading" | "live" | "threw"
  createErr,    \* the message of the error create threw
  ireq,         \* history: the authentication request of the calls
  creq,         \* history: the request of the create call
  cloc,         \* the locals baseUrl and gpuBuildUrl of the create call
  inst,         \* the closure of the instance: apiKey, baseUrl, gpuBuildUrl, deleted
  calls,        \* the calls the host made: run, upload and delete on the instance
                \* [op, pc, err, req, answer]; under SpecFind findUnique and the
                \* function factories
  \* ---- the runtime
  unhandled,    \* history: promises that rejected with no handler attached,
                \* <<f, 0>> a file upload of uploadModelFiles, <<f, p>> a part
  proc          \* "running" | "exited"

mvars == <<mpc, margs, bi, partSt, parts, puts, finReq, merr, finErr, finResp,
          pushOrder, respNoEtag>>
svars == <<spc>>
uvars == <<files, target, upc, fi, readSt, uploadPromises, logged>>
wvars == <<wpc, wargs, attempt, ip, hist, werr>>
dvars == <<gpc, dirPath, fsTree, listing, found>>
pvars == <<unhandled, proc>>
cvars == <<cfg, ipc, iconf, ireq, sbKind, createPc, createErr, creq, cloc, inst, calls>>
vars == <<chunkSize, mvars, svars, uvars, wvars, dvars, pvars, cvars>>

(* ------------------------------ helpers -------------------------------- *)
Min(a, b) == IF a < b THEN a ELSE b

Max(a, b) == IF a < b THEN b ELSE a

Range(s) == {s[k] : k \in 1..Len(s)}

\* ceil(a / b) for b > 0
CeilDiv(a, b) == (a + b - 1) \div b

\* A buffer of s bytes, each byte identified by its offset + 1.
Buffer(s) == [k \in 1..s |-> k]

\* Buffer.prototype.slice(start, end): both offsets are clamped to the length,
\* and an end before the start gives the empty buffer.
Slice(content, start, end) ==
  LET s == Min(Max(start, 0), Len(content))
      e == Min(Max(end, 0), Len(content))
  IN  IF e <= s THEN <<>> ELSE SubSeq(content, s + 1, e)

RECURSIVE Concat(_)
Concat(ss) == IF ss = <<>> THEN <<>> ELSE Head(ss) \o Concat(Tail(ss))

(* ---------- module-level configuration and its initializers ------------ *)
\* Values are strings, as in the code; null and undefined are the two
\* strings below, which no platform answer and no host argument equals.
Null == "null"

Undefined == "undefined"

DEFAULT_BASE_URL == "https://www.buildfunctions.com"

DEFAULT_GPU_BUILD_URL == "https://prod-gpu-build.buildfunctions.link"

\* a ?? b
Coalesce(a, b) == IF a \in {Null, Undefined} THEN b ELSE a

\* !a, for a string, null or undefined
Falsy(a) == a \in {Null, Undefined, ""}

\* a || undefined
OrUndefined(a) == IF Falsy(a) THEN Undefined ELSE a

\* The module-level variables of the four component modules once the
\* modules are loaded: every credential is null, every other variable
\* undefined.
ModuleLoad ==
  [ cpuSandbox  |-> [globalApiKey |-> Null, globalBaseUrl |-> Undefined],
    gpuSandbox  |-> [globalApiKey |-> Null, globalGpuBuildUrl |-> Undefined,
                     globalBaseUrl |-> Undefined, globalUserId |-> Undefined,
                     globalUsername |-> Undefined, globalComputeTier |-> Undefined],
    gpuFunction |-> [globalApiKey |-> Null, globalGpuBuildUrl |-> Undefined,
                     globalUserId |-> Undefined, globalUsername |-> Undefined,
                     globalComputeTier |-> Undefined],
    cpuFunction |-> [globalApiKey |-> Null, globalBaseUrl |-> Undefined] ]

setCpuSandboxApiKey(c, apiKey, baseUrl) ==
  [c EXCEPT !.cpuSandbox = [globalApiKey |-> apiKey, globalBaseUrl |-> baseUrl]]

setGpuSandboxApiKey(c, apiKey, gpuBuildUrl, userId, username, computeTier, baseUrl) ==
  [c EXCEPT !.gpuSandbox =
     [globalApiKey |-> apiKey, globalGpuBuildUrl |-> gpuBuildUrl,
      globalBaseUrl |-> baseUrl, globalUserId |-> userId,
      globalUsername |-> username, globalComputeTier |-> computeTier]]

setGpuApiKey(c, apiKey, gpuBuildUrl, userId, username, computeTier) ==
  [c EXCEPT !.gpuFunction =
     [globalApiKey |-> apiKey, globalGpuBuildUrl |-> gpuBuildUrl,
      globalUserId |-> userId, globalUsername |-> username,
      globalComputeTier |-> computeTier]]

\* The three setter calls of Buildfunctions(config), made with the answer
\* auth of the authentication request, on the module-level variables c.
Configure(c, config, auth) ==
  LET baseUrl     == Coalesce(config.baseUrl, DEFAULT_BASE_URL)
      gpuBuildUrl == Coalesce(config.gpuBuildUrl, DEFAULT_GPU_BUILD_URL)
      userId      == auth.user.id
      username    == OrUndefined(auth.user.username)
      computeTier == OrUndefined(auth.user.computeTier)
      c1 == setCpuSandboxApiKey(c, auth.sessionToken, baseUrl)
      c2 == setGpuSandboxApiKey(c1, auth.sessionToken, gpuBuildUrl, userId, username,
                                computeTier, baseUrl)
  IN  setGpuApiKey(c2, auth.sessionToken, gpuBuildUrl, userId, username, computeTier)

\* A delete that also forgets the credentials of its module.
GlobalsAfterDeleteSignsOut(op, c) ==
  IF op = "delete"
  THEN [c EXCEPT !.cpuSandbox.globalApiKey = Null, !.gpuSandbox.globalApiKey = Null]
  ELSE c

\* The module-level variables c after a run of the component operation op
\* (create, run, upload, delete): the operations read them into locals and
\* request bodies, and assign none.
GlobalsAfter(op, c) == c

\* await waitForEndpoint(endpoint) of run() resumes in the run in which the
\* probe returns or throws: run goes on to fetchWithAuthDNS, whose first step
\* is a resolution, or rejects with the error of the probe.
RunResumes ==
  LET P == {i \in DOMAIN calls : calls[i].op = "run" /\ calls[i].pc = "probing"} IN
  IF P # {} /\ wpc' \in {"returned", "threw"}
  THEN /\ calls' = [i \in DOMAIN calls |->
                      IF i \notin P THEN calls[i]
                      ELSE IF wpc' = "returned"
                      THEN [calls[i] EXCEPT !.pc = "resolving"]
                      ELSE [calls[i] EXCEPT !.pc = "threw", !.err = werr'.code]]
       /\ cfg' = GlobalsAfter("run", cfg)
       /\ UNCHANGED <<ipc, iconf, ireq, sbKind, createPc, createErr, creq, cloc, inst>>
  ELSE UNCHANGED cvars

\* createGPUSandboxInstance(..., globalApiKey!, gpuBuildUrl, baseUrl): the
\* credential is read when the instance is built, the URLs were read when
\* create was called.
GPUInstance(c, req) ==
  [apiKey |-> c.gpuSandbox.globalApiKey, baseUrl |-> req.baseUrl,
   gpuBuildUrl |-> req.gpuBuildUrl, deleted |-> FALSE]

\* await uploadModelFiles(...) of GPUSandbox.create resumes in the run in
\* which the call settles: the instance is built and create resolves, or the
\* catch block rejects create.
CreateResumes ==
  IF createPc = "uploading" /\ upc' \in {"resolved", "rejected"}
  THEN /\ createPc' = IF upc' = "resolved" THEN "live" ELSE "threw"
       /\ createErr' = IF upc' = "resolved" THEN createErr
                       ELSE "Sandbox created but model upload failed"
       /\ inst' = IF upc' = "resolved" THEN GPUInstance(cfg, cloc) ELSE inst
       /\ cfg' = GlobalsAfter("create", cfg)
       /\ UNCHANGED <<ipc, iconf, ireq, sbKind, creq, cloc, calls>>
  ELSE UNCHANGED cvars

(* ------------------- uploadPart (cli.ts:80-104) ------------------------ *)
\* The responses a part PUT to URL u can get: the fetch itself rejecting, a
\* non-2xx status (an error response, which carries no ETag), a 2xx status
\* without an ETag header, with an empty one, with a quoted one (the character
\* 0 is the double quote) or with a bare one.
PartResponses(u) ==
  { [net |-> TRUE,  ok |-> FALSE, hasEtag |-> FALSE, etag |-> <<>>],
    [net |-> FALSE, ok |-> FALSE, hasEtag |-> FALSE, etag |-> <<>>],
    [net |-> FALSE, ok |-> TRUE,  hasEtag |-> FALSE, etag |-> <<>>],
    [net |-> FALSE, ok |-> TRUE,  hasEtag |-> TRUE,  etag |-> <<>>],
    [net |-> FALSE, ok |-> TRUE,  hasEtag |-> TRUE,  etag |-> <<0, u, 0>>],
    [net |-> FALSE, ok |-> TRUE,  hasEtag |-> TRUE,  etag |-> <<u>>] }

\* etag.replace(/^"|"$/g, ''): one leading and one trailing double quote go.
StripQuotes(s) ==
  LET a == IF Len(s) > 0 /\ Head(s) = 0 THEN Tail(s) ELSE s
  IN  IF Len(a) > 0 /\ a[Len(a)] = 0 THEN SubSeq(a, 1, Len(a) - 1) ELSE a

\* uploadPart without the check of the ETag header.
UploadPartOutcomeNoEtagCheck(resp) ==
  IF resp.net THEN "neterr"
  ELSE IF ~resp.ok THEN "httperr"
  ELSE "ok"

\* How uploadPart settles on a response: "ok" (it resolves with a part) or the
\* reason it throws.
UploadPartOutcome(resp) ==
  IF resp.net THEN "neterr"
  ELSE IF ~resp.ok THEN "httperr"
  ELSE IF ~resp.hasEtag \/ resp.etag = <<>> THEN "noetag"
  ELSE "ok"

\* The part reported under the index j instead of the part number j + 1.
UploadPartResultZeroBased(resp, partNumber) ==
  [PartNumber |-> partNumber - 1, ETag |-> StripQuotes(resp.etag)]

\* return { PartNumber: partNumber, ETag: cleanEtag }
UploadPartResult(resp, partNumber) ==
  [PartNumber |-> partNumber, ETag |-> StripQuotes(resp.etag)]

(* --------------- uploadMultipartFile (cli.ts:106-159) ------------------ *)
\* The start computed from the part number instead of the index.
ChunkStartFromPartNumber(j) == (j + 1) * chunkSize

\* const start = j * CHUNK_SIZE
ChunkStart(j) == j * chunkSize

\* const end = Math.min(start + CHUNK_SIZE, content.length)
ChunkEnd(j, len) == Min(ChunkStart(j) + chunkSize, len)

\* A batch that takes every remaining part.
BatchEndUnbounded(i, n) == n

\* The bound of the inner loop: j < Math.min(i + maxParallelUploads, numberOfParts)
BatchEnd(i, n) == Min(i + maxParallelUploads, n)

\* signedUrls[j] is truthy
HasUrl(urls, j) == j + 1 <= Len(urls) /\ urls[j + 1] # 0

\* The URL looked up by the part number instead of the index j.
PartPutUrlByPartNumber(a, j) ==
  [url        |-> IF j + 2 <= Len(a.signedUrls) THEN a.signedUrls[j + 2] ELSE 0,
   partNumber |-> j + 1,
   start      |-> ChunkStart(j),
   end        |-> ChunkEnd(j, Len(a.content)),
   body       |-> Slice(a.content, ChunkStart(j), ChunkEnd(j, Len(a.content)))]

\* The request uploadPart(chunk, signedUrl, partNumber) sends for index j.
PartPut(a, j) ==
  [url        |-> a.signedUrls[j + 1],
   partNumber |-> j + 1,
   start      |-> ChunkStart(j),
   end        |-> ChunkEnd(j, Len(a.content)),
   body       |-> Slice(a.content, ChunkStart(j), ChunkEnd(j, Len(a.content)))]

\* parts.sort((a, b) => a.PartNumber - b.PartNumber)
RECURSIVE InsertPart(_, _)
InsertPart(x, s) ==
  IF s = <<>> THEN <<x>>
  ELSE IF x.PartNumber <= Head(s).PartNumber THEN <<x>> \o s
  ELSE <<Head(s)>> \o InsertPart(x, Tail(s))

\* The parts left in push order.
SortPartsOmitted(s) == s

RECURSIVE SortParts(_)
SortParts(s) == IF s = <<>> THEN <<>> ELSE InsertPart(Head(s), SortParts(Tail(s)))

\* The finalize POST without the upload session id.
FinalizeBodyNoUploadId(a, ps) == [uploadId |-> 0, parts |-> SortParts(ps)]

\* The body of the finalize POST.
FinalizeBody(a, ps) == [uploadId |-> a.uploadId, parts |-> SortParts(ps)]

\* Promise.all(uploadPromises) of uploadModelFiles, given the states the file
\* uploads are in: it rejects as soon as one has rejected and resolves once all
\* have resolved.
AllOutcome(proms, m, s) ==
  IF \E f \in Range(proms) : m[f] = "failed" \/ s[f] = "failed" THEN "rejected"
  ELSE IF \A f \in Range(proms) : m[f] = "done" \/ s[f] = "done" THEN "resolved"
  ELSE "awaitAll"

\* What a settled file upload does to a pending uploadModelFiles call.
Aggregate ==
  /\ upc' = IF upc = "awaitAll" THEN AllOutcome(uploadPromises, mpc', spc') ELSE upc
  /\ UNCHANGED <<files, target, fi, readSt, uploadPromises, logged>>

\* The run of an action is over and the microtask queue has drained.  A
\* promise that rejected in this run and has no handler by now is reported by
\* the runtime ('unhandledRejection'): Node, which the global fetch of cli.ts
\* requires, then ends the process with the error, unless the host runs it with
\* another --unhandled-rejections mode or listens to the event.  partRej are
\* the part promises of call f rejected in this run that no Promise.all(batch)
\* holds (cli.ts:131-136); the promise of call f itself has no handler while
\* uploadModelFiles has not reached Promise.all(uploadPromises) (cli.ts:219-227).
EndOfRun(f, partRej) ==
  LET rejectedNow == \/ mpc[f] # "failed" /\ mpc'[f] = "failed"
                     \/ spc[f] # "failed" /\ spc'[f] = "failed"
      awaited == upc = "idle" \/ fi' > Len(files)
      u == partRej \cup (IF rejectedNow /\ ~awaited THEN {<<f, 0>>} ELSE {})
  IN  /\ unhandled' = unhandled \cup u
      /\ proc' \in IF u = {} THEN {proc} ELSE {"running", "exited"}

\* The code of uploadMultipartFile from the head of the batch loop with loop
\* variable i, parts array ps and part states st, up to its next await: either
\* the PUTs of the next batch are issued (stopping with an exception at the
\* first index without a URL), or the sorted parts are posted to finalize.
RunLoop(f, a, i, ps, st) ==
  LET n == a.numberOfParts IN
  IF i < n
  THEN LET hi   == BatchEnd(i, n)
           bad  == {j \in i..(hi - 1) : ~HasUrl(a.signedUrls, j)}
           stop == IF bad = {} THEN hi
                   ELSE CHOOSE j \in bad : \A k \in bad : j <= k
       IN  /\ bi' = [bi EXCEPT ![f] = i]
           /\ partSt' = [partSt EXCEPT ![f] =
                 [p \in 1..n |-> IF p - 1 \in i..(stop - 1) THEN "inflight" ELSE st[p]]]
           /\ puts' = [puts EXCEPT ![f] =
                 puts[f] \o [k \in 1..(stop - i) |-> PartPut(a, i + k - 1)]]
           /\ parts' = [parts EXCEPT ![f] = ps]
           /\ finReq' = finReq
           /\ mpc' = [mpc EXCEPT ![f] = IF bad = {} THEN "await" ELSE "failed"]
           /\ merr' = [merr EXCEPT ![f] = IF bad = {} THEN "none" ELSE "missingUrl"]
  ELSE /\ bi' = [bi EXCEPT ![f] = i]
       /\ partSt' = [partSt EXCEPT ![f] = st]
       /\ puts' = puts
       /\ parts' = [parts EXCEPT ![f] = SortParts(ps)]
       /\ finReq' = [finReq EXCEPT ![f] = Append(finReq[f], FinalizeBody(a, ps))]
       /\ mpc' = [mpc EXCEPT ![f] = "finalize"]
       /\ merr' = [merr EXCEPT ![f] = "none"]

\* A direct call uploadMultipartFile(content, signedUrls, uploadId, numberOfParts, ...)
CallUploadMultipartFile(f) ==
  /\ proc = "running"
  /\ mpc[f] = "idle"
  /\ RunLoop(f, margs[f], 0, <<>>, [p \in 1..margs[f].numberOfParts |-> "idle"])
  /\ UNCHANGED <<margs, finErr, finResp, pushOrder, respNoEtag>>
  /\ UNCHANGED <<chunkSize, dvars, svars, uvars, wvars, pvars, cvars>>

\* Promise.race in the place of Promise.all: the batch is over with its first part.
BatchDoneAny(st, i, n) == \E q \in (i + 1)..BatchEnd(i, n) : st[q] = "ok"

\* await Promise.all(batch) resumes the loop: every part of the batch that
\* starts at index i has been uploaded and pushed.
BatchDone(st, i, n) == \A q \in (i + 1)..BatchEnd(i, n) : st[q] = "ok"

\* Promise.allSettled in the place of Promise.all: a failed part is passed over.
AfterPartOutcomeSettled(pc, o) == pc

\* What the outcome o of a part does to the call in state pc when it does not
\* end the batch: Promise.all(batch) rejects with the first failure, and the
\* await throws it out of uploadMultipartFile; nothing catches or retries.
AfterPartOutcome(pc, o) == IF o = "ok" THEN pc ELSE "failed"

\* The response to the PUT of part p arrives (or the PUT fails).  The part's
\* .then pushes to parts; the first failure rejects Promise.all(batch) and so
\* the call; the last success of a batch resumes the loop.
PartSettles(f, p, resp) ==
  /\ proc = "running"
  /\ mpc[f] \in {"await", "failed"}
  /\ p \in DOMAIN partSt[f]
  /\ partSt[f][p] = "inflight"
  /\ LET o   == UploadPartOutcome(resp)
         st  == [partSt[f] EXCEPT ![p] = o]
         ps  == IF o = "ok" THEN Append(parts[f], UploadPartResult(resp, p)) ELSE parts[f]
         n   == margs[f].numberOfParts
     IN  IF mpc[f] = "await" /\ o = "ok" /\ BatchDone(st, bi[f], n)
         THEN RunLoop(f, margs[f], bi[f] + maxParallelUploads, ps, st)
         ELSE /\ partSt' = [partSt EXCEPT ![f] = st]
              /\ parts' = [parts EXCEPT ![f] = ps]
              /\ mpc' = [mpc EXCEPT ![f] = AfterPartOutcome(mpc[f], o)]
              /\ merr' = [merr EXCEPT ![f] =
                    IF mpc[f] = "await" /\ o # "ok" THEN o ELSE merr[f]]
              /\ UNCHANGED <<bi, puts, finReq>>
  /\ pushOrder' = [pushOrder EXCEPT ![f] =
        IF UploadPartOutcome(resp) = "ok" THEN Append(@, p) ELSE @]
  /\ respNoEtag' = [respNoEtag EXCEPT ![f] =
        IF ~resp.net /\ (~resp.hasEtag \/ resp.etag = <<>>) THEN @ \cup {p} ELSE @]
  /\ UNCHANGED <<margs, finErr, finResp>>
  /\ UNCHANGED <<chunkSize, dvars, svars, wvars>>
  /\ Aggregate
  /\ CreateResumes
  /\ EndOfRun(f, IF UploadPartOutcome(resp) # "ok" /\ merr[f] = "missingUrl"
                 THEN {<<f, p>>} ELSE {})

\* How the finalize POST can be answered: the fetch rejects (net), a 2xx
\* response, or a non-2xx response with a status text and a body, either of
\* which may be empty.
FinalizeResponses ==
  { [net |-> TRUE,  ok |-> FALSE, statusText |-> "", body |-> ""],
    [net |-> FALSE, ok |-> TRUE,  statusText |-> "OK", body |-> "{}"],
    [net |-> FALSE, ok |-> FALSE, statusText |-> "Bad Request", body |-> ""],
    [net |-> FALSE, ok |-> FALSE, statusText |-> "Bad Request", body |-> "<Code>NoSuchUpload</Code>"],
    [net |-> FALSE, ok |-> FALSE, statusText |-> "", body |-> "<Code>NoSuchUpload</Code>"] }

\* The message of uploadFile (cli.ts:75), which reports the status text alone.
FinalizeErrorStatusOnly(resp) ==
  IF resp.net THEN "fetch failed"
  ELSE IF resp.ok THEN ""
  ELSE "Failed to complete upload: " \o resp.statusText

\* The message of the Error the finalize step throws: the error of fetch, or
\* `Failed to complete upload: ${response.statusText} - ${errorText}` with
\* errorText = await response.text(); "" when it does not throw.
FinalizeError(resp) ==
  IF resp.net THEN "fetch failed"
  ELSE IF resp.ok THEN ""
  ELSE "Failed to complete upload: " \o resp.statusText \o " - " \o resp.body

\* The answer resp to the finalize POST arrives: the call returns on a 2xx
\* status and throws otherwise.
FinalizeSettles(f, resp) ==
  /\ proc = "running"
  /\ mpc[f] = "finalize"
  /\ mpc' = [mpc EXCEPT ![f] = IF ~resp.net /\ resp.ok THEN "done" ELSE "failed"]
  /\ merr' = [merr EXCEPT ![f] = IF resp.net THEN "finalize-neterr"
                                 ELSE IF resp.ok THEN "none" ELSE "finalize-httperr"]
  /\ finErr' = [finErr EXCEPT ![f] = FinalizeError(resp)]
  /\ finResp' = [finResp EXCEPT ![f] = Append(@, resp)]
  /\ UNCHANGED <<margs, bi, partSt, parts, puts, finReq, pushOrder, respNoEtag>>
  /\ UNCHANGED <<chunkSize, dvars, svars, wvars>>
  /\ Aggregate
  /\ CreateResumes
  /\ EndOfRun(f, {})

InFlight(f) == Cardinality({p \in DOMAIN partSt[f] : partSt[f][p] = "inflight"})

(* ---------------------- uploadFile (cli.ts:66-78) ---------------------- *)
\* The response to the single PUT of file f arrives: uploadFile resolves on a
\* 2xx status and throws otherwise (or the fetch itself rejects).
FileSettles(f, ok) ==
  /\ proc = "running"
  /\ spc[f] = "inflight"
  /\ spc' = [spc EXCEPT ![f] = IF ok THEN "done" ELSE "failed"]
  /\ UNCHANGED <<chunkSize, dvars, mvars, wvars>>
  /\ Aggregate
  /\ CreateResumes
  /\ EndOfRun(f, {})

(* ------------------ uploadModelFiles (cli.ts:192-228) ------------------ *)
\* The multipart branch taken on the upload id alone.
DispatchKindByUploadId(t) ==
  IF t.uploadId # 0 THEN "multipart"
  ELSE IF Len(t.signedUrl) = 1 /\ t.signedUrl[1] # 0 THEN "single"
  ELSE "none"

\* An upload dispatched only while no other upload is in flight.
DispatchKindOneAtATime(t) ==
  IF \E f \in Files : mpc[f] \in {"await", "finalize"} \/ spc[f] = "inflight" THEN "none"
  ELSE IF Len(t.signedUrl) > 1 /\ t.uploadId # 0 THEN "multipart"
  ELSE IF Len(t.signedUrl) = 1 /\ t.signedUrl[1] # 0 THEN "single"
  ELSE "none"

\* Which upload the if / else-if of the loop body picks for a target.
DispatchKind(t) ==
  IF Len(t.signedUrl) > 1 /\ t.uploadId # 0 THEN "multipart"
  ELSE IF Len(t.signedUrl) = 1 /\ t.signedUrl[1] # 0 THEN "single"
  ELSE "none"

\* urlInfo.numberOfParts || signedUrls.length
PartCount(t) == IF t.numberOfParts # 0 THEN t.numberOfParts ELSE Len(t.signedUrl)

\* const urlInfo = presignedUrls[file.webkitRelativePath]; if (!urlInfo) ...
HasEntry(k) == target[k].entry

\* The loop left (break) at the first file without an entry.
NextWithEntryBreak(k) ==
  IF k <= Len(files) /\ HasEntry(k) THEN k ELSE Len(files) + 1

\* The first file from index k on that has an entry of presignedUrls, or
\* Len(files) + 1: the files before it are logged and skipped (continue).
NextWithEntry(k) ==
  LET c == {j \in k..Len(files) : HasEntry(j)}
  IN  IF c = {} THEN Len(files) + 1 ELSE CHOOSE j \in c : \A m \in c : j <= m

\* The for loop from file index k up to its next await: the readFile of the
\* next file that has an entry, or Promise.all(uploadPromises) after the loop.
Advance(k) ==
  LET nx == NextWithEntry(k) IN
  /\ logged' = logged \cup (k..(nx - 1))
  /\ fi' = nx
  /\ readSt' = IF nx <= Len(files) THEN [readSt EXCEPT ![nx] = "reading"] ELSE readSt
  /\ upc' = IF nx <= Len(files) THEN "reading"
            ELSE AllOutcome(uploadPromises', mpc', spc')
  /\ UNCHANGED <<files, target>>

\* uploadModelFiles(files, presignedUrls, ...) up to its first await.
uploadModelFiles ==
  /\ upc = "idle"
  /\ UNCHANGED <<chunkSize, dvars, mvars, svars, wvars, pvars, uploadPromises>>
  /\ Advance(1)

\* A direct call of uploadModelFiles.
CallUploadModelFiles ==
  /\ proc = "running"
  /\ uploadModelFiles
  /\ UNCHANGED cvars

\* readFile(file.localPath) of the current file settles.  On success the upload
\* is dispatched (its first requests are issued inside the call) and the loop
\* goes on; on failure uploadModelFiles rejects.
ReadSettles(ok) ==
  /\ proc = "running"
  /\ upc = "reading"
  /\ UNCHANGED <<chunkSize, dvars, wvars>>
  /\ IF ~ok
     THEN /\ upc' = "rejected"
          /\ readSt' = [readSt EXCEPT ![fi] = "failed"]
          /\ UNCHANGED <<mvars, svars, pvars, files, target, fi, uploadPromises, logged>>
     ELSE LET f == fi
              t == target[f]
              a == [content      |-> Buffer(files[f].size),
                    signedUrls   |-> t.signedUrl,
                    uploadId     |-> t.uploadId,
                    numberOfParts |-> PartCount(t)]
              kind == DispatchKind(t)
          IN  /\ IF kind = "multipart"
                 THEN /\ margs' = [margs EXCEPT ![f] = a]
                      /\ RunLoop(f, a, 0, <<>>, [p \in 1..a.numberOfParts |-> "idle"])
                      /\ UNCHANGED <<finErr, finResp, pushOrder, respNoEtag>>
                      /\ spc' = spc
                 ELSE /\ spc' = [spc EXCEPT ![f] = IF kind = "single" THEN "inflight" ELSE @]
                      /\ UNCHANGED mvars
              /\ uploadPromises' = IF kind = "none" THEN uploadPromises
                                   ELSE Append(uploadPromises, f)
              /\ LET nx == NextWithEntry(f + 1) IN
                 /\ logged' = logged \cup ((f + 1)..(nx - 1))
                 /\ fi' = nx
                 /\ readSt' = [k \in DOMAIN readSt |->
                                 IF k = f THEN "read"
                                 ELSE IF k = nx THEN "reading" ELSE readSt[k]]
                 /\ upc' = IF nx <= Len(files) THEN "reading"
                           ELSE AllOutcome(uploadPromises', mpc', spc')
                 /\ UNCHANGED <<files, target>>
              /\ EndOfRun(f, {})
  /\ CreateResumes

(* -------------- waitForEndpoint (cpu-sandbox.ts:70-92) ----------------- *)
\* What awsResolver.resolve4 can call back with: an error, or a list of addresses.
ResolveAnswers ==
  { [err |-> TRUE,  addresses |-> <<>>],
    [err |-> FALSE, addresses |-> <<>>],
    [err |-> FALSE, addresses |-> <<1>>],
    [err |-> FALSE, addresses |-> <<2, 1>>] }

\* resolveWithAWS rejects on an error or an empty list, else resolves addresses[0].
ResolveRejects(ans) == ans.err \/ Len(ans.addresses) = 0

\* How httpsGetWithIP can settle: the request's 'error' event, its 'timeout'
\* event, or a complete response with a status code.
FetchResults ==
  { [kind |-> "error",   status |-> 0],
    [kind |-> "timeout", status |-> 0] }
  \cup { [kind |-> "response", status |-> s] : s \in {199, 200, 404, 499, 500, 503} }

\* Readiness taken for response.ok.
ReadyStatus2xxOnly(s) == s >= 200 /\ s < 300

\* res.status >= 200 && res.status < 500
ReadyStatus(s) == s >= 200 /\ s < 500

\* console.log fires in the catch block when attempt === 1 || attempt % 10 === 0
LogsAttempt(att) == att = 1 \/ att % 10 = 0

\* The loop condition with < for <=.
MoreAttemptsExclusive(att, max) == att < max

\* The loop condition attempt <= maxAttempts
MoreAttempts(att, max) == att <= max

\* new BuildfunctionsError(`Endpoint not ready after ${maxAttempts} attempts`, 'NETWORK_ERROR')
ExhaustionError(max) == [code |-> "NETWORK_ERROR", attempts |-> max]

\* An attempt that goes on to the delay whatever the status.
AfterFetchNoReturn(r) == "sleeping"

\* Where an attempt goes after its fetch settled with r: return on a ready
\* status, else the delay (through the catch block for an error or a timeout).
AfterFetch(r) ==
  IF r.kind = "response" /\ ReadyStatus(r.status) THEN "returned" ELSE "sleeping"

\* An attempt without the catch block: the error leaves waitForEndpoint.
OnAttemptErrorRethrow(e) == [pc |-> "threw", err |-> [code |-> e, attempts |-> 0]]

\* The catch block of the attempt: the error e of a failed resolution or fetch
\* is logged at most and dropped; the loop goes on with the delay.
OnAttemptError(e) == [pc |-> "sleeping", err |-> [code |-> "none", attempts |-> 0]]

\* The address of the first successful resolution of the call kept for the
\* later attempts.
FetchAddressCached(h, cur) ==
  LET done == {k \in 1..Len(h) : h[k].resolved # 0}
  IN  IF done = {} THEN cur
      ELSE h[CHOOSE k \in done : \A m \in done : k <= m].resolved

\* The address httpsGetWithIP is called with: const ip = await
\* resolveWithAWS(hostname) of the same loop iteration, whatever the attempts
\* h before it resolved.
FetchAddress(h, cur) == cur

\* The head of the for loop with loop variable att: the next attempt starts
\* with its resolution, or the loop ends and the exhaustion error is thrown.
LoopHead(att) ==
  /\ attempt' = att
  /\ ip' = 0
  /\ IF MoreAttempts(att, wargs.maxAttempts)
     THEN /\ wpc' = "resolving"
          /\ hist' = Append(hist, [resolved |-> 0, fetchedIp |-> 0, fetch |-> "none",
                                   status |-> 0, logged |-> FALSE])
          /\ werr' = werr
     ELSE /\ wpc' = "threw"
          /\ hist' = hist
          /\ werr' = ExhaustionError(wargs.maxAttempts)

\* waitForEndpoint(endpoint, maxAttempts, delayMs): new URL(endpoint) throws a
\* TypeError on a malformed endpoint, before the loop.
waitForEndpoint ==
  /\ IF wargs.urlOk
     THEN LoopHead(1)
     ELSE /\ wpc' = "threw"
          /\ werr' = [code |-> "TypeError", attempts |-> 0]
          /\ UNCHANGED <<attempt, ip, hist>>
  /\ wargs' = wargs

\* A direct call of waitForEndpoint.
CallWaitForEndpoint ==
  /\ proc = "running"
  /\ wpc = "idle"
  /\ waitForEndpoint
  /\ UNCHANGED <<chunkSize, dvars, mvars, svars, uvars, pvars, cvars>>

\* The resolution of the current attempt settles: on success the fetch to the
\* resolved address is issued, on failure the catch block runs and the delay starts.
ResolveSettles(ans) ==
  /\ proc = "running"
  /\ wpc = "resolving"
  /\ IF ResolveRejects(ans)
     THEN /\ wpc' = OnAttemptError("resolve").pc
          /\ werr' = OnAttemptError("resolve").err
          /\ ip' = ip
          /\ hist' = [hist EXCEPT ![Len(hist)].logged = LogsAttempt(attempt)]
     ELSE /\ wpc' = "fetching"
          /\ werr' = werr
          /\ ip' = ans.addresses[1]
          /\ hist' = [hist EXCEPT ![Len(hist)].resolved = ans.addresses[1],
                                  ![Len(hist)].fetchedIp = FetchAddress(hist, ans.addresses[1]),
                                  ![Len(hist)].fetch = "pending"]
  /\ UNCHANGED <<wargs, attempt>>
  /\ UNCHANGED <<chunkSize, dvars, mvars, svars, uvars, pvars, cvars>>

\* The fetch of the current attempt settles: a ready status returns, anything
\* else (the catch block for an error or a timeout) goes on to the delay.
FetchSettles(r) ==
  /\ proc = "running"
  /\ wpc = "fetching"
  /\ hist' = [hist EXCEPT ![Len(hist)].fetch = r.kind,
                          ![Len(hist)].status = r.status,
                          ![Len(hist)].logged = r.kind # "response" /\ LogsAttempt(attempt)]
  /\ wpc' = IF r.kind = "response" THEN AfterFetch(r) ELSE OnAttemptError(r.kind).pc
  /\ werr' = IF r.kind = "response" THEN werr ELSE OnAttemptError(r.kind).err
  /\ UNCHANGED <<wargs, attempt, ip>>
  /\ UNCHANGED <<chunkSize, dvars, mvars, svars, uvars, pvars>>
  /\ RunResumes

\* The delay between attempts ends: attempt++ and the loop condition.
SleepDone ==
  /\ proc = "running"
  /\ wpc = "sleeping"
  /\ LoopHead(attempt + 1)
  /\ wargs' = wargs
  /\ UNCHANGED <<chunkSize, dvars, mvars, svars, uvars, pvars>>
  /\ RunResumes

(* ------------- getFilesInDirectory (cli.ts:161-190) -------------------- *)
\* Paths are strings, as in the code; the operators below are the POSIX
\* functions of node:path on them.
Char(s, i) == SubSeq(s, i, i)

Slashes(s) == {i \in 1..Len(s) : Char(s, i) = "/"}

\* The segments of a path: the pieces between slashes, empty pieces dropped.
RECURSIVE Split(_)
Split(s) ==
  LET sl == Slashes(s) IN
  IF s = "" THEN <<>>
  ELSE IF sl = {} THEN <<s>>
  ELSE LET i == CHOOSE i \in sl : \A j \in sl : i <= j
       IN  (IF i = 1 THEN <<>> ELSE <<SubSeq(s, 1, i - 1)>>)
           \o Split(SubSeq(s, i + 1, Len(s)))

\* Normalisation of segments: "." goes, ".." takes the segment before it along.
RECURSIVE Norm(_, _)
Norm(done, rest) ==
  IF rest = <<>> THEN done
  ELSE IF Head(rest) = "." THEN Norm(done, Tail(rest))
  ELSE IF Head(rest) = ".." /\ done # <<>> /\ done[Len(done)] # ".."
       THEN Norm(SubSeq(done, 1, Len(done) - 1), Tail(rest))
  ELSE Norm(Append(done, Head(rest)), Tail(rest))

RECURSIVE JoinSegs(_)
JoinSegs(segs) ==
  IF segs = <<>> THEN ""
  ELSE IF Len(segs) = 1 THEN segs[1]
  ELSE segs[1] \o "/" \o JoinSegs(Tail(segs))

IsAbsolute(p) == Len(p) > 0 /\ Char(p, 1) = "/"

\* path.join(a, b): the two joined by "/" and normalised.
PathJoin(a, b) ==
  LET segs == Norm(<<>>, Split(a \o "/" \o b))
  IN  IF IsAbsolute(a) THEN "/" \o JoinSegs(segs)
      ELSE IF segs = <<>> THEN "." ELSE JoinSegs(segs)

RECURSIVE StripTrailingSlashes(_)
StripTrailingSlashes(s) ==
  IF Len(s) > 1 /\ Char(s, Len(s)) = "/"
  THEN StripTrailingSlashes(SubSeq(s, 1, Len(s) - 1))
  ELSE s

\* path.basename(p): what follows the last slash, trailing slashes ignored.
Basename(p) ==
  LET s  == StripTrailingSlashes(p)
      sl == Slashes(s)
      last == IF sl = {} THEN 0 ELSE CHOOSE i \in sl : \A j \in sl : j <= i
  IN  SubSeq(s, last + 1, Len(s))

\* process.cwd(), as segments.
Cwd == <<"home", "user">>

\* path.resolve(p), as segments.
Resolve(p) == IF IsAbsolute(p) THEN Norm(<<>>, Split(p)) ELSE Norm(<<>>, Cwd \o Split(p))

\* path.relative(from, to): both resolved, the common leading segments
\* removed, one ".." for each segment left of from.
PathRelative(from, to) ==
  LET f == Resolve(from)
      g == Resolve(to)
      same == {k \in 0..Min(Len(f), Len(g)) : \A m \in 1..k : f[m] = g[m]}
      c == CHOOSE k \in same : \A m \in same : m <= k
  IN  JoinSegs([k \in 1..(Len(f) - c) |-> ".."] \o SubSeq(g, c + 1, Len(g)))

\* The names a directory can hold and the paths, relative to the root
\* directory, at which the tree can hold an entry.
Names == {"a.txt", "b.bin", "sub"}

TreePaths ==
  { <<"a.txt">>, <<"sub">>, <<"sub", "a.txt">>, <<"sub", "b.bin">>,
    <<"sub", "sub">>, <<"sub", "sub", "b.bin">> }

\* What a path holds: nothing, a directory, a regular file of some size, or
\* an entry of another type (a symbolic link, a socket, a FIFO, a device).
Nodes ==
  [kind : {"none", "dir", "other"}, size : {0}]
  \cup [kind : {"file"}, size : 0..MaxFileSize]

\* The trees: an entry exists only inside a directory.
Trees ==
  { t \in [TreePaths -> Nodes] :
      \A p \in TreePaths :
        (Len(p) > 1 /\ t[p].kind # "none") => t[SubSeq(p, 1, Len(p) - 1)].kind = "dir" }

\* readdirSync(cur, { withFileTypes: true }): the entries of the directory at
\* path cur, in the order of the listing; a Dirent reports the type of the
\* entry itself, so a symbolic link is neither a file nor a directory.
ReadDir(root, cur) ==
  LET rel == SubSeq(Resolve(cur), Len(Resolve(root)) + 1, Len(Resolve(cur)))
      present == SelectSeq(listing, LAMBDA n :
                    Append(rel, n) \in TreePaths /\ fsTree[Append(rel, n)].kind # "none")
  IN  [k \in 1..Len(present) |->
         [name |-> present[k],
          kind |-> fsTree[Append(rel, present[k])].kind,
          size |-> fsTree[Append(rel, present[k])].size]]

\* The relative path taken from the directory being listed.
DescriptorRelativeToCurrent(root, cur, e) ==
  [name |-> e.name,
   size |-> e.size,
   type |-> "application/octet-stream",
   webkitRelativePath |-> Basename(root) \o "/" \o PathRelative(cur, PathJoin(cur, e.name)),
   localPath |-> PathJoin(cur, e.name)]

\* The descriptor pushed for the regular file e of the directory cur.
Descriptor(root, cur, e) ==
  [name |-> e.name,
   size |-> e.size,
   type |-> "application/octet-stream",
   webkitRelativePath |-> Basename(root) \o "/" \o PathRelative(root, PathJoin(cur, e.name)),
   localPath |-> PathJoin(cur, e.name)]

\* walkDir(cur): the descriptors pushed, in order, while the entries of cur
\* are visited: a directory is walked at once, a regular file is pushed, any
\* other entry is passed over.
RECURSIVE WalkDir(_, _)
RECURSIVE WalkEntries(_, _, _)
WalkEntries(root, cur, es) ==
  IF es = <<>> THEN <<>>
  ELSE (IF Head(es).kind = "dir" THEN WalkDir(root, PathJoin(cur, Head(es).name))
        ELSE IF Head(es).kind = "file" THEN <<Descriptor(root, cur, Head(es))>>
        ELSE <<>>)
       \o WalkEntries(root, cur, Tail(es))

WalkDir(root, cur) == WalkEntries(root, cur, ReadDir(root, cur))

\* getFilesInDirectory(dirPath): synchronous, one run.
GetFilesInDirectory ==
  /\ proc = "running"
  /\ gpc = "idle"
  /\ gpc' = "returned"
  /\ found' = WalkDir(dirPath, dirPath)
  /\ UNCHANGED <<dirPath, fsTree, listing>>
  /\ UNCHANGED <<chunkSize, mvars, svars, uvars, wvars, pvars, cvars>>

(* ------------- Buildfunctions (client.ts: Buildfunctions) -------------- *)
\* The configurations a host passes: without an API key, with the defaults,
\* and with its own base URLs.
ClientConfigs ==
  { [apiKey |-> "", baseUrl |-> Undefined, gpuBuildUrl |-> Undefined],
    [apiKey |-> "bf_key", baseUrl |-> Undefined, gpuBuildUrl |-> Undefined],
    [apiKey |-> "bf_key", baseUrl |-> "https://staging.example",
     gpuBuildUrl |-> "https://gpu.staging.example"] }

NoUser == [id |-> Undefined, username |-> Undefined, computeTier |-> Undefined]

\* How POST /api/sdk/auth can be answered: the request fails (net), a non-2xx
\* status, a 2xx answer that does not say authenticated, and two sessions, the
\* second of a user without a username and a compute tier.
AuthResponses ==
  { [net |-> TRUE,  ok |-> FALSE, authenticated |-> FALSE, sessionToken |-> Undefined,
     user |-> NoUser],
    [net |-> FALSE, ok |-> FALSE, authenticated |-> FALSE, sessionToken |-> Undefined,
     user |-> NoUser],
    [net |-> FALSE, ok |-> TRUE,  authenticated |-> FALSE, sessionToken |-> Undefined,
     user |-> NoUser],
    [net |-> FALSE, ok |-> TRUE,  authenticated |-> TRUE,  sessionToken |-> "session-A",
     user |-> [id |-> "u1", username |-> "ann", computeTier |-> "pro"]],
    [net |-> FALSE, ok |-> TRUE,  authenticated |-> TRUE,  sessionToken |-> "session-B",
     user |-> [id |-> "u2", username |-> "", computeTier |-> ""]] }

\* A request as the platform sees it: its URL, its Authorization header ("" when
\* it has none) and the identity fields of its body (<<>> when it has none).
Request(url, auth, identity) == [url |-> url, auth |-> auth, identity |-> identity]

\* No request.
NoRequest == [url |-> "no request"]

\* `Bearer ${token}`
Bearer(token) == "Bearer " \o token

\* The Buildfunctions(config) calls of the host made so far.
InitsMade == ipc.pending + ipc.resolved + ipc.rejected

\* Buildfunctions(config) up to its first await: the API key check and the
\* authentication request of the new HTTP client.
CallBuildfunctions ==
  /\ proc = "running"
  /\ InitsMade < MaxInits
  /\ IF Falsy(iconf.apiKey)
     THEN /\ ipc' = [ipc EXCEPT !.rejected = @ + 1]
          /\ ireq' = ireq
     ELSE /\ ipc' = [ipc EXCEPT !.pending = @ + 1]
          /\ ireq' = Request(Coalesce(iconf.baseUrl, DEFAULT_BASE_URL) \o "/api/sdk/auth",
                             Bearer(iconf.apiKey), <<>>)
  /\ UNCHANGED <<cfg, iconf, sbKind, createPc, createErr, creq, cloc, inst, calls>>
  /\ UNCHANGED <<chunkSize, mvars, svars, uvars, wvars, dvars, pvars>>

\* The authentication request of a pending call is answered: the call
\* rejects, or the three setters run and it resolves with the client.
AuthSettles(auth) ==
  /\ proc = "running"
  /\ ipc.pending > 0
  /\ IF auth.net \/ ~auth.ok \/ ~auth.authenticated
     THEN /\ ipc' = [ipc EXCEPT !.pending = @ - 1, !.rejected = @ + 1]
          /\ cfg' = cfg
     ELSE /\ ipc' = [ipc EXCEPT !.pending = @ - 1, !.resolved = @ + 1]
          /\ cfg' = Configure(cfg, iconf, auth)
  /\ UNCHANGED <<iconf, ireq, sbKind, createPc, createErr, creq, cloc, inst, calls>>
  /\ UNCHANGED <<chunkSize, mvars, svars, uvars, wvars, dvars, pvars>>

(* ---- CPUSandbox.create, GPUSandbox.create (cpu-sandbox.ts, gpu-sandbox.ts) ---- *)
\* create(config) with a valid config, up to its first await: the credential
\* check, the URLs read from the module-level variables, and the request.
CallCreate ==
  /\ proc = "running"
  /\ createPc = "idle"
  /\ LET g == IF sbKind = "cpu" THEN cfg.cpuSandbox ELSE cfg.gpuSandbox
         baseUrl == Coalesce(g.globalBaseUrl, DEFAULT_BASE_URL)
         gpuBuildUrl == IF sbKind = "cpu" THEN ""
                        ELSE Coalesce(g.globalGpuBuildUrl, DEFAULT_GPU_BUILD_URL)
     IN  IF Falsy(g.globalApiKey)
         THEN /\ createPc' = "threw"
              /\ createErr' = "API key not set. Initialize Buildfunctions client first."
              /\ UNCHANGED <<creq, cloc>>
         ELSE /\ createPc' = "creating"
              /\ createErr' = createErr
              /\ cloc' = [baseUrl |-> baseUrl, gpuBuildUrl |-> gpuBuildUrl]
              /\ creq' = IF sbKind = "cpu"
                          THEN Request(baseUrl \o "/api/sdk/sandbox/create",
                                       Bearer(g.globalApiKey), <<>>)
                          ELSE Request(gpuBuildUrl \o "/build", "",
                                       <<g.globalUserId, g.globalUsername, g.globalComputeTier>>)
  /\ cfg' = GlobalsAfter("create", cfg)
  /\ UNCHANGED <<ipc, iconf, ireq, sbKind, inst, calls>>
  /\ UNCHANGED <<chunkSize, mvars, svars, uvars, wvars, dvars, pvars>>

\* How the create request of a CPU sandbox can be answered.
CreateResponses ==
  { [net |-> TRUE,  ok |-> FALSE, json |-> FALSE],
    [net |-> FALSE, ok |-> FALSE, json |-> TRUE],
    [net |-> FALSE, ok |-> TRUE,  json |-> FALSE],
    [net |-> FALSE, ok |-> TRUE,  json |-> TRUE] }

\* createCPUSandboxInstance(..., globalApiKey, baseUrl): the credential is
\* read when the instance is built, the base URL was read when create was called.
CPUInstance(c, req) ==
  [apiKey |-> c.cpuSandbox.globalApiKey, baseUrl |-> req.baseUrl,
   gpuBuildUrl |-> "", deleted |-> FALSE]

\* The create request of the CPU sandbox is answered.
CreateSettles(resp) ==
  /\ proc = "running"
  /\ sbKind = "cpu"
  /\ createPc = "creating"
  /\ IF resp.net \/ ~resp.ok \/ ~resp.json
     THEN /\ createPc' = "threw"
          /\ createErr' = IF resp.net THEN "fetch failed"
                          ELSE IF ~resp.ok THEN "Failed to create sandbox"
                          ELSE "Invalid JSON response"
          /\ inst' = inst
     ELSE /\ createPc' = "live"
          /\ createErr' = createErr
          /\ inst' = CPUInstance(cfg, cloc)
  /\ cfg' = GlobalsAfter("create", cfg)
  /\ UNCHANGED <<ipc, iconf, ireq, sbKind, creq, cloc, calls>>
  /\ UNCHANGED <<chunkSize, mvars, svars, uvars, wvars, dvars, pvars>>

\* How the build request of a GPU sandbox can settle: an 'error' event, or a
\* complete response with a status, with or without modelPresignedUrls.
BuildResponses ==
  { [kind |-> "error", status |-> 0, urls |-> FALSE] }
  \cup [kind : {"response"}, status : {200, 201, 500}, urls : BOOLEAN]

\* The build request of the GPU sandbox settles.  With a local model and
\* presigned URLs in the answer uploadModelFiles is called, and create goes on
\* when that call settles; else the instance is built at once.
BuildSettles(resp) ==
  /\ proc = "running"
  /\ sbKind # "cpu"
  /\ createPc = "creating"
  /\ IF resp.kind = "error" \/ resp.status \notin {200, 201}
     THEN /\ createPc' = "threw"
          /\ createErr' = IF resp.kind = "error" THEN "request error"
                          ELSE "Failed to create sandbox"
          /\ inst' = inst
          /\ UNCHANGED <<chunkSize, mvars, svars, uvars, wvars, dvars, pvars>>
     ELSE IF sbKind = "gpuModel" /\ resp.urls
     THEN /\ uploadModelFiles
          /\ createPc' = IF upc' = "resolved" THEN "live" ELSE "uploading"
          /\ createErr' = createErr
          /\ inst' = IF upc' = "resolved" THEN GPUInstance(cfg, cloc) ELSE inst
     ELSE /\ createPc' = "live"
          /\ createErr' = createErr
          /\ inst' = GPUInstance(cfg, cloc)
          /\ UNCHANGED <<chunkSize, mvars, svars, uvars, wvars, dvars, pvars>>
  /\ cfg' = GlobalsAfter("create", cfg)
  /\ UNCHANGED <<ipc, iconf, ireq, sbKind, creq, cloc, calls>>

(* --------- run, upload, delete of a sandbox instance ------------------- *)
\* The error of a deleted instance raised with the code of a failed request.
CallDeletedAsUnknown(op, pc, err, req) ==
  [op |-> op, pc |-> pc, err |-> IF err = "INVALID_REQUEST" THEN "UNKNOWN_ERROR" ELSE err,
   req |-> req, answer |-> "none"]

\* How a request was answered: it failed, or with a 2xx or another status.
Answer(net, ok) == IF net THEN "failed" ELSE IF ok THEN "2xx" ELSE "non-2xx"

\* A call of run, upload or delete: where it is, the error it threw, the
\* request it made to the sandbox endpoint or the platform, and (history)
\* how that request was answered, "none" so far.
Call(op, pc, err, req) ==
  [op |-> op, pc |-> pc, err |-> err, req |-> req, answer |-> "none"]

\* The host makes up to MaxCalls calls on its instance.  The host of a sandbox
\* with a local model is followed up to the end of create: its instance is
\* the one of a GPU sandbox without.
HostMayCall == createPc = "live" /\ sbKind # "gpuModel" /\ Len(calls) < MaxCalls

\* run() up to its first await: the deleted check, then the readiness probe
\* (CPU) or the request to the endpoint (GPU).  One probe is followed: the
\* host runs a CPU sandbox that is not deleted once.
CallRun ==
  /\ proc = "running"
  /\ HostMayCall
  /\ IF inst.deleted
     THEN /\ calls' = Append(calls, Call("run", "threw", "INVALID_REQUEST", NoRequest))
          /\ UNCHANGED wvars
     ELSE IF sbKind = "cpu"
     THEN /\ wpc = "idle"
          /\ waitForEndpoint
          /\ calls' = Append(calls,
                IF wpc' = "threw" THEN Call("run", "threw", werr'.code, NoRequest)
                ELSE Call("run", "probing", "none", NoRequest))
     ELSE /\ calls' = Append(calls,
                Call("run", "fetching", "none", Request("endpoint", Bearer(inst.apiKey), <<>>)))
          /\ UNCHANGED wvars
  /\ cfg' = GlobalsAfter("run", cfg)
  /\ UNCHANGED <<ipc, iconf, ireq, sbKind, createPc, createErr, creq, cloc, inst>>
  /\ UNCHANGED <<chunkSize, mvars, svars, uvars, dvars, pvars>>

\* The resolution of fetchWithAuthDNS of run call i settles: run rejects, or
\* the GET to the endpoint is sent.
RunResolveSettles(i, ans) ==
  /\ proc = "running"
  /\ i \in DOMAIN calls
  /\ calls[i].op = "run" /\ calls[i].pc = "resolving"
  /\ IF ResolveRejects(ans)
     THEN calls' = [calls EXCEPT ![i] = Call("run", "threw", "resolve", NoRequest)]
     ELSE calls' = [calls EXCEPT ![i] =
             Call("run", "fetching", "none", Request("endpoint", "", <<>>))]
  /\ cfg' = GlobalsAfter("run", cfg)
  /\ UNCHANGED <<ipc, iconf, ireq, sbKind, createPc, createErr, creq, cloc, inst>>
  /\ UNCHANGED <<chunkSize, mvars, svars, uvars, wvars, dvars, pvars>>

\* How the request of run() to the endpoint can settle: it fails (net), or a
\* response with a status and a body: empty, plain text, or JSON.
RunResponses ==
  { [net |-> TRUE, status |-> 0, body |-> ""] }
  \cup [net : {FALSE}, status : {200, 500}, body : {"", "Hello", "{\"error\":\"boom\"}"}]

\* JSON.parse(responseText) succeeds; of the bodies above, on the one that
\* starts an object.
ParsesAsJson(body) == Len(body) > 0 /\ SubSeq(body, 1, 1) = "{"

\* What run() does with the response r: the error code it throws, or "none"
\* when it returns a RunResult.
RunOutcome(r) ==
  IF r.net THEN "fetch failed"
  ELSE IF r.body = "" THEN "UNKNOWN_ERROR"
  ELSE IF ~ParsesAsJson(r.body) THEN "none"
  ELSE IF r.status < 200 \/ r.status >= 300 THEN "UNKNOWN_ERROR"
  ELSE "none"

\* The request of run call i to the endpoint settles.
RunFetchSettles(i, r) ==
  /\ proc = "running"
  /\ i \in DOMAIN calls
  /\ calls[i].op = "run" /\ calls[i].pc = "fetching"
  /\ calls' = [calls EXCEPT ![i].pc = IF RunOutcome(r) = "none" THEN "returned" ELSE "threw",
                            ![i].err = RunOutcome(r),
                            ![i].answer = Answer(r.net, r.status >= 200 /\ r.status < 300)]
  /\ cfg' = GlobalsAfter("run", cfg)
  /\ UNCHANGED <<ipc, iconf, ireq, sbKind, createPc, createErr, creq, cloc, inst>>
  /\ UNCHANGED <<chunkSize, mvars, svars, uvars, wvars, dvars, pvars>>

\* The options of an upload call: both paths and an existing local file, a
\* path missing, or no file at the local path.
UploadOptions == {"ok", "noPath", "notFound"}

\* upload(options) up to its first await: the deleted check, the validation
\* of the options, and the readFile of the local file.
CallUpload(opt) ==
  /\ proc = "running"
  /\ HostMayCall
  /\ calls' = Append(calls,
        IF inst.deleted THEN Call("upload", "threw", "INVALID_REQUEST", NoRequest)
        ELSE IF opt # "ok" THEN Call("upload", "threw", "VALIDATION_ERROR", NoRequest)
        ELSE Call("upload", "reading", "none", NoRequest))
  /\ cfg' = GlobalsAfter("upload", cfg)
  /\ UNCHANGED <<ipc, iconf, ireq, sbKind, createPc, createErr, creq, cloc, inst>>
  /\ UNCHANGED <<chunkSize, mvars, svars, uvars, wvars, dvars, pvars>>

\* readFile of upload call i settles: upload rejects, or posts the content.
UploadReadSettles(i, ok) ==
  /\ proc = "running"
  /\ i \in DOMAIN calls
  /\ calls[i].op = "upload" /\ calls[i].pc = "reading"
  /\ IF ok
     THEN calls' = [calls EXCEPT ![i] =
             Call("upload", "posting", "none",
                  Request(inst.baseUrl \o "/api/sdk/sandbox/upload", Bearer(inst.apiKey), <<>>))]
     ELSE calls' = [calls EXCEPT ![i] = Call("upload", "threw", "readFile", NoRequest)]
  /\ cfg' = GlobalsAfter("upload", cfg)
  /\ UNCHANGED <<ipc, iconf, ireq, sbKind, createPc, createErr, creq, cloc, inst>>
  /\ UNCHANGED <<chunkSize, mvars, svars, uvars, wvars, dvars, pvars>>

\* How a request of upload or delete can be answered.
PlatformResponses ==
  { [net |-> TRUE,  ok |-> FALSE],
    [net |-> FALSE, ok |-> FALSE],
    [net |-> FALSE, ok |-> TRUE] }

\* The POST of upload call i is answered.
UploadSettles(i, resp) ==
  /\ proc = "running"
  /\ i \in DOMAIN calls
  /\ calls[i].op = "upload" /\ calls[i].pc = "posting"
  /\ calls' = [calls EXCEPT ![i].pc = IF ~resp.net /\ resp.ok THEN "returned" ELSE "threw",
                            ![i].err = IF resp.net THEN "fetch failed"
                                       ELSE IF ~resp.ok THEN "UNKNOWN_ERROR" ELSE "none",
                            ![i].answer = Answer(resp.net, resp.ok)]
  /\ cfg' = GlobalsAfter("upload", cfg)
  /\ UNCHANGED <<ipc, iconf, ireq, sbKind, createPc, createErr, creq, cloc, inst>>
  /\ UNCHANGED <<chunkSize, mvars, svars, uvars, wvars, dvars, pvars>>

\* delete() up to its first await: nothing on a deleted instance, else the
\* delete request; the one of a GPU sandbox carries no credential and reads
\* the user identity from the module-level variables.
CallDelete ==
  /\ proc = "running"
  /\ HostMayCall
  /\ IF inst.deleted
     THEN calls' = Append(calls, Call("delete", "returned", "none", NoRequest))
     ELSE calls' = Append(calls, Call("delete", "deleting", "none",
                IF sbKind = "cpu"
                THEN Request(inst.baseUrl \o "/api/sdk/sandbox/delete", Bearer(inst.apiKey), <<>>)
                ELSE Request(inst.gpuBuildUrl \o "/delete", "",
                             <<cfg.gpuSandbox.globalUserId, cfg.gpuSandbox.globalUsername>>)))
  /\ cfg' = GlobalsAfter("delete", cfg)
  /\ UNCHANGED <<ipc, iconf, ireq, sbKind, createPc, createErr, creq, cloc, inst>>
  /\ UNCHANGED <<chunkSize, mvars, svars, uvars, wvars, dvars, pvars>>

\* The delete request of call i is answered.  A CPU sandbox checks
\* response.ok before it sets deleted; a GPU sandbox sets it on any answer.
DeleteSettles(i, resp) ==
  /\ proc = "running"
  /\ i \in DOMAIN calls
  /\ calls[i].op = "delete" /\ calls[i].pc = "deleting"
  /\ IF resp.net
     THEN /\ calls' = [calls EXCEPT ![i].pc = "threw", ![i].err = "fetch failed",
                                     ![i].answer = Answer(resp.net, resp.ok)]
          /\ inst' = inst
     ELSE IF sbKind = "cpu" /\ ~resp.ok
     THEN /\ calls' = [calls EXCEPT ![i].pc = "threw", ![i].err = "UNKNOWN_ERROR",
                                     ![i].answer = Answer(resp.net, resp.ok)]
          /\ inst' = inst
     ELSE /\ calls' = [calls EXCEPT ![i].pc = "returned",
                                     ![i].answer = Answer(resp.net, resp.ok)]
          /\ inst' = [inst EXCEPT !.deleted = TRUE]
  /\ cfg' = GlobalsAfter("delete", cfg)
  /\ UNCHANGED <<ipc, iconf, ireq, sbKind, createPc, createErr, creq, cloc>>
  /\ UNCHANGED <<chunkSize, mvars, svars, uvars, wvars, dvars, pvars>>

(* ------------------------- initial states ------------------------------ *)
NoArgs == [content |-> <<>>, signedUrls |-> <<>>, uploadId |-> 0, numberOfParts |-> 0]

NoEntry == [entry |-> FALSE, signedUrl |-> <<>>, uploadId |-> 0, numberOfParts |-> 0]

\* The entries presignedUrls can hold for a file: one URL, without and with
\* an upload id; one empty URL; no URL; two URLs with an upload id; two URLs
\* without one (uploadId: null); two URLs with an upload id and numberOfParts: 3.
Targets ==
  { [entry |-> TRUE, signedUrl |-> <<1>>,    uploadId |-> 0, numberOfParts |-> 0],
    [entry |-> TRUE, signedUrl |-> <<1>>,    uploadId |-> 1, numberOfParts |-> 1],
    [entry |-> TRUE, signedUrl |-> <<0>>,    uploadId |-> 0, numberOfParts |-> 0],
    [entry |-> TRUE, signedUrl |-> <<>>,     uploadId |-> 0, numberOfParts |-> 0],
    [entry |-> TRUE, signedUrl |-> <<1, 2>>, uploadId |-> 1, numberOfParts |-> 0],
    [entry |-> TRUE, signedUrl |-> <<1, 2>>, uploadId |-> 0, numberOfParts |-> 0],
    [entry |-> TRUE, signedUrl |-> <<1, 2>>, uploadId |-> 1, numberOfParts |-> 3] }

NoUploads ==
  /\ mpc = [f \in Files |-> "idle"]
  /\ bi = [f \in Files |-> 0]
  /\ partSt = [f \in Files |-> <<>>]
  /\ parts = [f \in Files |-> <<>>]
  /\ puts = [f \in Files |-> <<>>]
  /\ finReq = [f \in Files |-> <<>>]
  /\ merr = [f \in Files |-> "none"]
  /\ finErr = [f \in Files |-> ""]
  /\ finResp = [f \in Files |-> <<>>]
  /\ unhandled = {}
  /\ proc = "running"
  /\ pushOrder = [f \in Files |-> <<>>]
  /\ respNoEtag = [f \in Files |-> {}]
  /\ spc = [f \in Files |-> "idle"]

NoModelFiles ==
  /\ files = <<>>
  /\ target = [f \in Files |-> NoEntry]
  /\ upc = "idle"
  /\ fi = 0
  /\ readSt = [f \in Files |-> "unread"]
  /\ uploadPromises = <<>>
  /\ logged = {}

NoProbe ==
  /\ wpc = "idle"
  /\ wargs = [urlOk |-> TRUE, maxAttempts |-> 0]
  /\ attempt = 0
  /\ ip = 0
  /\ hist = <<>>
  /\ werr = [code |-> "none", attempts |-> 0]

NoWalk ==
  /\ gpc = "idle"
  /\ dirPath = ""
  /\ fsTree = [p \in TreePaths |-> [kind |-> "none", size |-> 0]]
  /\ listing = <<>>
  /\ found = <<>>

\* The client modules are not loaded: a host of the uploader alone imports
\* none of them, and their variables do not exist.
NotLoaded == "not loaded"

\* No Buildfunctions call made, no sandbox created.
NoSandbox ==
  /\ ipc = [pending |-> 0, resolved |-> 0, rejected |-> 0]
  /\ ireq = NoRequest
  /\ createPc = "idle"
  /\ createErr = ""
  /\ creq = NoRequest
  /\ cloc = Null
  /\ inst = Null
  /\ calls = <<>>

\* The host has no client: it calls the uploader alone.
NoClient == cfg = NotLoaded /\ iconf = Null /\ sbKind = Null /\ NoSandbox

\* cpu-sandbox.ts and the other client modules are loaded, and the host
\* makes no client call.
IdleClient == cfg = ModuleLoad /\ iconf = Null /\ sbKind = Null /\ NoSandbox

\* One direct call of uploadMultipartFile is about to be made.
InitUpload ==
  /\ chunkSize \in 1..MaxChunk
  /\ \E s \in 0..MaxLen, u \in 0..MaxParts, n \in 0..MaxParts :
       margs = [f \in Files |->
                  IF f = 1
                  THEN [content |-> Buffer(s), signedUrls |-> [k \in 1..u |-> k],
                        uploadId |-> 1, numberOfParts |-> n]
                  ELSE NoArgs]
  /\ NoUploads
  /\ NoModelFiles
  /\ NoProbe
  /\ NoWalk
  /\ NoClient

\* One call of uploadModelFiles is about to be made: file k holds k bytes.
InitFiles ==
  /\ chunkSize = 1
  /\ margs = [f \in Files |-> NoArgs]
  /\ NoUploads
  /\ \E n \in 1..MaxFiles :
       /\ files = [k \in 1..n |-> [size |-> k]]
       /\ target \in [Files -> Targets \cup {NoEntry}]
       /\ \A k \in Files : k > n => target[k] = NoEntry
  /\ upc = "idle"
  /\ fi = 0
  /\ readSt = [f \in Files |-> "unread"]
  /\ uploadPromises = <<>>
  /\ logged = {}
  /\ NoProbe
  /\ NoWalk
  /\ NoClient

\* One call of waitForEndpoint is about to be made.
InitProbe ==
  /\ chunkSize = 1
  /\ margs = [f \in Files |-> NoArgs]
  /\ NoUploads
  /\ NoModelFiles
  /\ wpc = "idle"
  /\ wargs \in [urlOk : BOOLEAN, maxAttempts : 0..MaxAttempts]
  /\ attempt = 0
  /\ ip = 0
  /\ hist = <<>>
  /\ werr = [code |-> "none", attempts |-> 0]
  /\ NoWalk
  /\ IdleClient

\* The directory paths getFilesInDirectory is called with: relative, with a
\* trailing slash, nested, absolute, and the current directory.
DirPaths == {"root", "root/", "models/root", "/srv/root", "."}

\* One call of getFilesInDirectory is about to be made on some tree.
InitWalk ==
  /\ chunkSize = 1
  /\ margs = [f \in Files |-> NoArgs]
  /\ NoUploads
  /\ NoModelFiles
  /\ NoProbe
  /\ gpc = "idle"
  /\ dirPath \in DirPaths
  /\ fsTree \in Trees
  /\ listing \in {s \in [1..Cardinality(Names) -> Names] : \A j, k \in DOMAIN s : j # k => s[j] # s[k]}
  /\ found = <<>>
  /\ NoClient

\* The entries modelPresignedUrls holds for a model file here: one URL, or none.
ModelTargets ==
  { [entry |-> TRUE, signedUrl |-> <<1>>, uploadId |-> 0, numberOfParts |-> 0], NoEntry }

\* The modules are loaded; the host will initialize the client with its
\* configuration, up to MaxInits times, and work with one sandbox: a CPU
\* sandbox, a GPU sandbox, or a GPU sandbox with a local model of two files,
\* of one and two bytes.
InitClient ==
  /\ chunkSize = 1
  /\ margs = [f \in Files |-> NoArgs]
  /\ NoUploads
  /\ sbKind \in {"cpu", "gpu", "gpuModel"}
  /\ IF sbKind = "gpuModel"
     THEN /\ files = <<[size |-> 1], [size |-> 2]>>
          /\ target \in [Files -> ModelTargets]
          /\ \A k \in Files : k > 2 => target[k] = NoEntry
     ELSE /\ files = <<>>
          /\ target = [f \in Files |-> NoEntry]
  /\ upc = "idle"
  /\ fi = 0
  /\ readSt = [f \in Files |-> "unread"]
  /\ uploadPromises = <<>>
  /\ logged = {}
  /\ wpc = "idle"
  /\ wargs = [urlOk |-> TRUE, maxAttempts |-> ProbeCeiling]
  /\ attempt = 0
  /\ ip = 0
  /\ hist = <<>>
  /\ werr = [code |-> "none", attempts |-> 0]
  /\ NoWalk
  /\ cfg = ModuleLoad
  /\ iconf \in ClientConfigs
  /\ NoSandbox

(* --------------------------- specifications ---------------------------- *)
PartSettlesAny ==
  \E f \in Files : \E p \in {q \in DOMAIN partSt[f] : partSt[f][q] = "inflight"} :
    \E resp \in PartResponses(margs[f].signedUrls[p]) : PartSettles(f, p, resp)

FinalizeSettlesAny ==
  \E f \in Files : \E resp \in FinalizeResponses : FinalizeSettles(f, resp)

FileSettlesAny == \E f \in Files : \E ok \in BOOLEAN : FileSettles(f, ok)

ReadSettlesAny == \E ok \in BOOLEAN : ReadSettles(ok)

ResolveSettlesAny == \E ans \in ResolveAnswers : ResolveSettles(ans)

FetchSettlesAny == \E r \in FetchResults : FetchSettles(r)

NextUpload ==
  \/ CallUploadMultipartFile(1)
  \/ PartSettlesAny
  \/ FinalizeSettlesAny

NextFiles ==
  \/ CallUploadModelFiles
  \/ ReadSettlesAny
  \/ FileSettlesAny
  \/ PartSettlesAny
  \/ FinalizeSettlesAny

NextProbe ==
  \/ CallWaitForEndpoint
  \/ ResolveSettlesAny
  \/ FetchSettlesAny
  \/ SleepDone

SpecUpload == InitUpload /\ [][NextUpload]_vars

SpecFiles == InitFiles /\ [][NextFiles]_vars

SpecProbe == InitProbe /\ [][NextProbe]_vars

NextWalk == GetFilesInDirectory

SpecWalk == InitWalk /\ [][NextWalk]_vars

AuthSettlesAny == \E auth \in AuthResponses : AuthSettles(auth)

CreateSettlesAny == \E resp \in CreateResponses : CreateSettles(resp)

BuildSettlesAny == \E resp \in BuildResponses : BuildSettles(resp)

RunResolveSettlesAny ==
  \E i \in 1..MaxCalls : \E ans \in ResolveAnswers : RunResolveSettles(i, ans)

RunFetchSettlesAny == \E i \in 1..MaxCalls : \E r \in RunResponses : RunFetchSettles(i, r)

CallUploadAny == \E opt \in UploadOptions : CallUpload(opt)

UploadReadSettlesAny == \E i \in 1..MaxCalls : \E ok \in BOOLEAN : UploadReadSettles(i, ok)

UploadSettlesAny ==
  \E i \in 1..MaxCalls : \E resp \in PlatformResponses : UploadSettles(i, resp)

DeleteSettlesAny ==
  \E i \in 1..MaxCalls : \E resp \in PlatformResponses : DeleteSettles(i, resp)

\* The client specification draws the answers to the probe from a failed and
\* a successful resolution, and a ready and a not ready status.
ClientResolveSettles ==
  \E ans \in {a \in ResolveAnswers : a.err \/ Len(a.addresses) = 1} : ResolveSettles(ans)

ClientFetchSettles ==
  \E r \in {x \in FetchResults : x.status \in {200, 503}} : FetchSettles(r)

NextClient ==
  \/ CallBuildfunctions
  \/ AuthSettlesAny
  \/ CallCreate
  \/ CreateSettlesAny
  \/ BuildSettlesAny
  \/ ReadSettlesAny
  \/ FileSettlesAny
  \/ CallRun
  \/ ClientResolveSettles
  \/ ClientFetchSettles
  \/ SleepDone
  \/ RunResolveSettlesAny
  \/ RunFetchSettlesAny
  \/ CallUploadAny
  \/ UploadReadSettlesAny
  \/ UploadSettlesAny
  \/ CallDelete
  \/ DeleteSettlesAny

SpecClient == InitClient /\ [][NextClient]_vars

(* ===================== claims: uploadMultipartFile ===================== *)
Ascending(ps) == \A k \in 1..(Len(ps) - 1) : ps[k].PartNumber < ps[k + 1].PartNumber

\* C1: whatever the order in which the part uploads complete, the parts list
\* of every finalize request is strictly ascending by PartNumber.
C1_FinalizePartsAscending ==
  \A f \in Files : \A r \in 1..Len(finReq[f]) : Ascending(finReq[f][r].parts)

\* C1 witness: a finalize request was issued for more parts than one batch
\* holds, two of which completed in the order opposite to their part numbers.
C1_Witness ==
  /\ finReq[1] # <<>>
  /\ Len(pushOrder[1]) > maxParallelUploads
  /\ \E k \in 1..(Len(pushOrder[1]) - 1) : pushOrder[1][k] > pushOrder[1][k + 1]

\* C2: at no instant of an uploadMultipartFile call are more than
\* maxParallelUploads (5) part PUTs in flight.
C2_InFlightBounded == \A f \in Files : InFlight(f) <= maxParallelUploads

\* C2 witness: a call with more parts than the fan-out has 5 PUTs in flight.
C2_Witness ==
  /\ margs[1].numberOfParts > maxParallelUploads
  /\ InFlight(1) = maxParallelUploads

\* C3: once the PUT of any part has been answered without an ETag header, the
\* call has rejected and no finalize request has been or is ever issued.
C3_NoEtagRejectsBeforeFinalize ==
  \A f \in Files :
    respNoEtag[f] # {} => mpc[f] = "failed" /\ finReq[f] = <<>>

\* C3 witness: a part was answered 2xx without ETag after another part of the
\* same call had been uploaded successfully.
C3_Witness ==
  \E p, q \in DOMAIN partSt[1] : partSt[1][p] = "noetag" /\ partSt[1][q] = "ok"

\* The bodies of the PUTs of call f, in ascending part-number order.
BodiesByPartNumber(f) ==
  LET byNumber == [n \in 1..Len(puts[f]) |->
                     CHOOSE k \in 1..Len(puts[f]) : puts[f][k].partNumber = n]
  IN  [n \in 1..Len(puts[f]) |-> puts[f][byNumber[n]].body]

\* C4 as stated: a completed upload has sent exactly ceil(S/P) parts, and their
\* byte ranges concatenated in part-number order are the content.
C4_AsClaimed ==
  \A f \in Files :
    mpc[f] = "done" =>
      /\ Len(puts[f]) = CeilDiv(Len(margs[f].content), chunkSize)
      /\ Concat(BodiesByPartNumber(f)) = margs[f].content

\* C4 amended: the PUTs issued are those of the parts 1, 2, ... in this order,
\* part k carrying exactly the bytes [(k-1)P, min(kP, S)); an upload that
\* reaches finalize has sent exactly numberOfParts parts (the count it was
\* given, which it never computes from S), and these reproduce, without gap or
\* overlap, the first min(numberOfParts * P, S) bytes of the content: the whole
\* content exactly when numberOfParts >= ceil(S/P).
C4_PartsCoverPrefix ==
  \A f \in Files :
    LET content == margs[f].content
        S == Len(content)
        N == margs[f].numberOfParts
    IN  /\ \A k \in 1..Len(puts[f]) :
             /\ puts[f][k].partNumber = k
             /\ puts[f][k].body = [b \in 1..(Min(k * chunkSize, S) - Min((k - 1) * chunkSize, S))
                                     |-> (k - 1) * chunkSize + b]
        /\ mpc[f] \in {"finalize", "done"} =>
             /\ Len(puts[f]) = N
             /\ Concat(BodiesByPartNumber(f)) = SubSeq(content, 1, Min(N * chunkSize, S))
             /\ (Concat(BodiesByPartNumber(f)) = content) <=> (N >= CeilDiv(S, chunkSize))

\* C4 witness: a completed upload of 3 bytes in 2 parts of at most 2 bytes, the
\* last part shorter, the given part count being ceil(S/P).
C4_Witness ==
  /\ mpc[1] = "done"
  /\ Len(puts[1]) = 2
  /\ margs[1].numberOfParts = 2
  /\ Len(margs[1].content) = 3
  /\ chunkSize = 2

(* ========================= claims: waitForEndpoint ===================== *)
\* Attempt record h saw a fetch answered with a status in [200, 500).
SawReady(h) == h.fetch = "response" /\ h.status >= 200 /\ h.status < 500

\* C5: waitForEndpoint never starts more than maxAttempts attempts, and when
\* the call is over with no attempt ready it has made exactly maxAttempts
\* attempts and thrown the NETWORK_ERROR error that reports maxAttempts.
C5_ExhaustionAfterCeiling ==
  wargs.urlOk =>
    /\ Len(hist) <= wargs.maxAttempts
    /\ (wpc \in {"returned", "threw"} /\ \A k \in 1..Len(hist) : ~SawReady(hist[k])) =>
         /\ wpc = "threw"
         /\ werr = [code |-> "NETWORK_ERROR", attempts |-> wargs.maxAttempts]
         /\ Len(hist) = wargs.maxAttempts

\* C5 witness: every fetch of a call with a ceiling of at least 2 returned 503
\* and the call has thrown.
C5_Witness ==
  /\ wpc = "threw"
  /\ wargs.maxAttempts >= 2
  /\ Len(hist) = wargs.maxAttempts
  /\ \A k \in 1..Len(hist) : hist[k].fetch = "response" /\ hist[k].status = 503

\* C6: an attempt whose fetch returned a ready status is the last attempt
\* started, and the call has returned: no attempt k+1 is resolved or fetched.
C6_ReturnsAtFirstReady ==
  \A k \in 1..Len(hist) : SawReady(hist[k]) => k = Len(hist) /\ wpc = "returned"

\* C6 witness: attempt 1 got 503, attempt 2 got 200 below the ceiling, and the
\* call has returned after these two attempts.
C6_Witness ==
  /\ wpc = "returned"
  /\ wargs.maxAttempts > 2
  /\ Len(hist) = 2
  /\ hist[1].status = 503
  /\ hist[2].status = 200

\* C7: waitForEndpoint has returned if and only if the fetch of some attempt
\* returned a status s with 200 <= s < 500.
C7_ReturnsIffReadyStatus ==
  (wpc = "returned") <=> (\E k \in 1..Len(hist) : SawReady(hist[k]))

\* C7 witness: the call returned on a 404 after an attempt answered 500.
C7_Witness ==
  /\ wpc = "returned"
  /\ Len(hist) = 2
  /\ hist[1].fetch = "response" /\ hist[1].status = 500
  /\ hist[2].fetch = "response" /\ hist[2].status = 404

\* C8: with a well-formed endpoint the only error waitForEndpoint throws is the
\* exhaustion error, after all maxAttempts attempts were made: a failed
\* resolution, a connection error or a timeout of an attempt never leaves it.
C8_OnlyExhaustionIsThrown ==
  (wargs.urlOk /\ wpc = "threw") =>
    /\ werr.code = "NETWORK_ERROR"
    /\ Len(hist) = wargs.maxAttempts
    /\ attempt = wargs.maxAttempts + 1

\* C8 witness: one attempt failed to resolve, one failed to connect and one
\* timed out, and the call ended with the exhaustion error.
C8_Witness ==
  /\ wpc = "threw"
  /\ werr.code = "NETWORK_ERROR"
  /\ \E a, b, c \in 1..Len(hist) :
       /\ hist[a].resolved = 0
       /\ hist[b].fetch = "error"
       /\ hist[c].fetch = "timeout"

(* ========================= claims: uploadModelFiles ==================== *)
\* The UploadTarget invariant of the data model: at least one URL, every URL
\* non-empty, and an upload session id when there is more than one URL.
WellFormedTarget(t) ==
  /\ t.entry
  /\ Len(t.signedUrl) >= 1
  /\ \A k \in 1..Len(t.signedUrl) : t.signedUrl[k] # 0
  /\ Len(t.signedUrl) > 1 => t.uploadId # 0

Dispatched(k) == \E i \in 1..Len(uploadPromises) : uploadPromises[i] = k

\* C9: a descriptor without an entry in the target map is skipped (logged,
\* never read, never uploaded); once the loop is past a later file that has a
\* target (satisfying the UploadTarget invariant) that file's upload has been
\* dispatched; and the call rejects only when a read or an upload of a file
\* that has an entry failed, never because of the missing entry.
C9_MissingEntrySkipped ==
  /\ \A k \in 1..Len(files) :
       ~target[k].entry =>
         /\ readSt[k] = "unread"
         /\ mpc[k] = "idle" /\ spc[k] = "idle"
         /\ ~Dispatched(k)
         /\ fi > k => k \in logged
  /\ \A j, k \in 1..Len(files) :
       (j < k /\ ~target[j].entry /\ WellFormedTarget(target[k]) /\ fi > k) => Dispatched(k)
  /\ upc = "rejected" =>
       \E k \in 1..Len(files) :
         target[k].entry /\ (readSt[k] = "failed" \/ mpc[k] = "failed" \/ spc[k] = "failed")

\* C9 witness: the call resolved although the first descriptor had no entry,
\* and the file after it was uploaded.
C9_Witness ==
  /\ upc = "resolved"
  /\ Len(files) >= 2
  /\ ~target[1].entry
  /\ 1 \in logged
  /\ spc[2] = "done" \/ mpc[2] = "done"

\* C10: once the loop is past a descriptor whose target satisfies the
\* UploadTarget invariant, exactly one upload has been dispatched for it: the
\* single-shot PUT for one URL, the chunked uploader for more than one; and
\* the call reaches Promise.all only after the loop has passed every file.
C10_OneUploadPerTarget ==
  /\ \A k \in 1..Len(files) :
       (WellFormedTarget(target[k]) /\ fi > k) =>
         /\ Cardinality({i \in 1..Len(uploadPromises) : uploadPromises[i] = k}) = 1
         /\ Len(target[k].signedUrl) = 1 => (spc[k] # "idle" /\ mpc[k] = "idle")
         /\ Len(target[k].signedUrl) > 1 => (mpc[k] # "idle" /\ spc[k] = "idle")
  /\ upc \in {"awaitAll", "resolved"} => fi = Len(files) + 1

\* C10 witness: of two files, the one with one URL went through the single
\* PUT and the one with two URLs through the chunked uploader, and the call
\* resolved.
C10_Witness ==
  /\ upc = "resolved"
  /\ \E j, k \in 1..Len(files) :
       /\ Len(target[j].signedUrl) = 1 /\ spc[j] = "done"
       /\ Len(target[k].signedUrl) = 2 /\ mpc[k] = "done" /\ Len(finReq[k]) = 1

\* The target names a URL for each of its parts.
UrlPerPart(t) == PartCount(t) <= Len(t.signedUrl)

\* C11 as stated, for target maps that satisfy the UploadTarget invariant and
\* name a URL for every part:
\* uploadModelFiles has resolved only if every dispatched file upload has
\* resolved, and once a dispatched file upload has rejected the call has
\* rejected or is still on its way to reject (it is awaiting a file read in a
\* live process).
C11_AsClaimed ==
  (\A k \in 1..Len(files) :
      target[k].entry => WellFormedTarget(target[k]) /\ UrlPerPart(target[k])) =>
    /\ upc = "resolved" =>
         \A f \in Range(uploadPromises) : mpc[f] = "done" \/ spc[f] = "done"
    /\ (\E f \in Range(uploadPromises) : mpc[f] = "failed" \/ spc[f] = "failed") =>
         \/ upc = "rejected"
         \/ upc = "reading" /\ proc = "running"

(* ============== claims: uploadMultipartFile, batches and finalize ====== *)
\* The batch (0, 1, ...) the part with part number p belongs to.
BatchOf(p) == (p - 1) \div maxParallelUploads

\* C13: when the PUT of a part has been issued, every part of every earlier
\* batch has been uploaded successfully: no part of batch b+1 starts before
\* batch b is complete, and none starts after a batch in which a part failed.
C13_BatchesSequential ==
  \A f \in Files : \A p, q \in DOMAIN partSt[f] :
    (partSt[f][p] # "idle" /\ BatchOf(q) < BatchOf(p)) => partSt[f][q] = "ok"

\* C13 witness: the second batch of a 6-part call is in flight, the 5 parts of
\* the first batch having completed out of order.
C13_Witness ==
  /\ Len(partSt[1]) = 6
  /\ partSt[1][6] = "inflight"
  /\ Len(pushOrder[1]) = 5
  /\ pushOrder[1][1] = 5

\* C14: within one call no two PUTs go to the same URL or carry the same part
\* number; a part whose PUT failed (non-2xx, missing ETag, or no response) has
\* been sent exactly once, the call has rejected and no finalize was issued.
C14_NoRetry ==
  \A f \in Files :
    /\ \A j, k \in 1..Len(puts[f]) :
         j # k => /\ puts[f][j].url # puts[f][k].url
                  /\ puts[f][j].partNumber # puts[f][k].partNumber
    /\ \A p \in DOMAIN partSt[f] :
         partSt[f][p] \in {"httperr", "noetag", "neterr"} =>
           /\ Cardinality({k \in 1..Len(puts[f]) : puts[f][k].partNumber = p}) = 1
           /\ mpc[f] = "failed"
           /\ finReq[f] = <<>>

\* C14 witness: one part of a batch of three got a non-2xx answer, the two
\* others completed after it, and nothing is in flight any more.
C14_Witness ==
  /\ Len(partSt[1]) = 3
  /\ partSt[1][2] = "httperr"
  /\ pushOrder[1] = <<3, 1>>
  /\ merr[1] = "httperr"
  /\ InFlight(1) = 0
  /\ Len(puts[1]) = 3

\* C15: the parts of every finalize request hold exactly one entry for each
\* part number 1..numberOfParts, and no other entry.
C15_FinalizeHasEveryPartOnce ==
  \A f \in Files : \A r \in 1..Len(finReq[f]) :
    LET ps == finReq[f][r].parts
        N  == margs[f].numberOfParts
    IN  /\ Len(ps) = N
        /\ \A n \in 1..N : Cardinality({k \in 1..Len(ps) : ps[k].PartNumber = n}) = 1

\* C15 witness: the finalize request of a call of 6 parts (two batches) whose
\* last part of the first batch completed first.
C15_Witness ==
  /\ Len(finReq[1]) = 1
  /\ Len(finReq[1][1].parts) = 6
  /\ pushOrder[1][1] = 5

\* C16: the PUT issued for part number i+1 goes to the URL at index i, with
\* the bytes [i*P, min((i+1)*P, S)) of the content; the ETag its response
\* carried (quotes stripped) is recorded under PartNumber i+1; and a call that
\* reached finalize has issued this PUT for every i in 0..numberOfParts-1.
C16_PartMapping ==
  \A f \in Files :
    LET a == margs[f]
        S == Len(a.content)
    IN  /\ \A k \in 1..Len(puts[f]) :
             LET i  == puts[f][k].partNumber - 1
                 lo == i * chunkSize
                 hi == Min((i + 1) * chunkSize, S)
             IN  /\ i \in 0..(a.numberOfParts - 1)
                 /\ puts[f][k].url = a.signedUrls[i + 1]
                 /\ puts[f][k].start = lo
                 /\ puts[f][k].end = hi
                 /\ puts[f][k].body = [b \in 1..Max(hi - lo, 0) |-> lo + b]
        /\ \A k \in 1..Len(parts[f]) :
             /\ parts[f][k].PartNumber \in 1..a.numberOfParts
             /\ parts[f][k].ETag = <<a.signedUrls[parts[f][k].PartNumber]>>
        /\ mpc[f] \in {"finalize", "done"} =>
             /\ {puts[f][k].partNumber : k \in 1..Len(puts[f])} = 1..a.numberOfParts
             /\ {parts[f][k].PartNumber : k \in 1..Len(parts[f])} = 1..a.numberOfParts

\* C16 witness: a call of 3 parts over 3 bytes with P = 1 is at finalize, its
\* parts having completed in the order 3, 1, 2.
C16_Witness ==
  /\ mpc[1] = "finalize"
  /\ chunkSize = 1
  /\ Len(margs[1].content) = 3
  /\ pushOrder[1] = <<3, 1, 2>>

\* C17: a call issues at most one finalize request, and exactly one when it
\* has completed; when the request is issued every part has been uploaded
\* successfully (none is in flight, none was left out) and the request carries
\* the uploadId the call was given.
C17_FinalizeOnceAfterParts ==
  \A f \in Files :
    /\ Len(finReq[f]) <= 1
    /\ mpc[f] \in {"finalize", "done"} <=> Len(finReq[f]) = 1 /\ merr[f] = "none"
    /\ finReq[f] # <<>> =>
         /\ InFlight(f) = 0
         /\ \A p \in DOMAIN partSt[f] : partSt[f][p] = "ok"
         /\ Len(puts[f]) = margs[f].numberOfParts
         /\ margs[f].uploadId # 0
         /\ finReq[f][1].uploadId = margs[f].uploadId

\* C17 witness: a call of two batches has completed with its one finalize
\* request.
C17_Witness ==
  /\ mpc[1] = "done"
  /\ margs[1].numberOfParts > maxParallelUploads
  /\ Len(finReq[1]) = 1

\* The string s occurs in the string msg.
Includes(msg, s) ==
  \E i \in 1..(Len(msg) + 1) :
    /\ i + Len(s) - 1 <= Len(msg)
    /\ \A k \in 1..Len(s) : SubSeq(msg, i + k - 1, i + k - 1) = SubSeq(s, k, k)

\* C18: when the finalize request was answered with a non-2xx status, the
\* call has rejected with an error whose message includes the body of that
\* response, all parts having been uploaded successfully.
C18_FinalizeErrorCarriesBody ==
  \A f \in Files : \A r \in 1..Len(finResp[f]) :
    LET resp == finResp[f][r] IN
    (~resp.net /\ ~resp.ok) =>
      /\ mpc[f] = "failed"
      /\ merr[f] = "finalize-httperr"
      /\ Includes(finErr[f], resp.body)
      /\ \A p \in DOMAIN partSt[f] : partSt[f][p] = "ok"

\* C18 witness: every part of a 2-part call succeeded and the finalize request
\* was answered non-2xx with a non-empty body and an empty status text.
C18_Witness ==
  /\ margs[1].numberOfParts = 2
  /\ \A p \in DOMAIN partSt[1] : partSt[1][p] = "ok"
  /\ mpc[1] = "failed"
  /\ Len(finResp[1]) = 1
  /\ ~finResp[1][1].ok /\ ~finResp[1][1].net
  /\ finResp[1][1].body # ""
  /\ finResp[1][1].statusText = ""

(* ================ claims: waitForEndpoint, resolution ================== *)
\* C19: every attempt started has its own resolution; an attempt whose fetch
\* was issued had resolved an address and the fetch went to that address; an
\* attempt whose resolution failed issued no fetch.
C19_FreshResolutionPerAttempt ==
  /\ \A k \in 1..Len(hist) :
       /\ hist[k].fetch # "none" =>
            hist[k].resolved # 0 /\ hist[k].fetchedIp = hist[k].resolved
       /\ hist[k].resolved = 0 => hist[k].fetch = "none" /\ hist[k].fetchedIp = 0
       /\ k < Len(hist) => hist[k].resolved = 0 \/ hist[k].fetch \notin {"none", "pending"}
  /\ wpc = "fetching" => ip = hist[Len(hist)].resolved /\ ip # 0
  /\ wpc = "resolving" => hist[Len(hist)].resolved = 0 /\ ip = 0

\* C19 witness: attempt 1 resolved address 1 and was answered 503, attempt 2
\* failed to resolve, attempt 3 resolved address 2 and its fetch went there.
C19_Witness ==
  /\ Len(hist) = 3
  /\ hist[1].resolved = 1 /\ hist[1].fetchedIp = 1 /\ hist[1].status = 503
  /\ hist[2].resolved = 0 /\ hist[2].fetch = "none"
  /\ hist[3].resolved = 2 /\ hist[3].fetchedIp = 2 /\ hist[3].fetch = "pending"

(* ====================== claims: getFilesInDirectory ==================== *)
\* The text of each tree path relative to the root directory.
RelativeText(p) ==
  CASE p = <<"a.txt">> -> "a.txt"
    [] p = <<"sub">> -> "sub"
    [] p = <<"sub", "a.txt">> -> "sub/a.txt"
    [] p = <<"sub", "b.bin">> -> "sub/b.bin"
    [] p = <<"sub", "sub">> -> "sub/sub"
    [] p = <<"sub", "sub", "b.bin">> -> "sub/sub/b.bin"

\* The base name of each root directory path.
BaseNameText(d) ==
  CASE d = "root" -> "root"
    [] d = "root/" -> "root"
    [] d = "models/root" -> "root"
    [] d = "/srv/root" -> "root"
    [] d = "." -> "."

\* C12: the array getFilesInDirectory returns holds exactly one descriptor for
\* each regular file of the tree, at any depth, and nothing else; the relative
\* path of the descriptor of a file is the base name of the root directory,
\* "/", and the path of the file relative to the root.
C12_OneDescriptorPerFile ==
  gpc = "returned" =>
    LET regular == {p \in TreePaths : fsTree[p].kind = "file"} IN
    /\ Len(found) = Cardinality(regular)
    /\ \A p \in regular :
         Cardinality({k \in 1..Len(found) :
            /\ found[k].webkitRelativePath = BaseNameText(dirPath) \o "/" \o RelativeText(p)
            /\ found[k].name = p[Len(p)]
            /\ found[k].size = fsTree[p].size}) = 1

\* C12 witness: the tree root/{a.txt, sub/b.bin} gave root/a.txt and
\* root/sub/b.bin, the directory having been listed before the file.
C12_Witness ==
  /\ gpc = "returned"
  /\ dirPath = "root"
  /\ {p \in TreePaths : fsTree[p].kind # "none"} = {<<"a.txt">>, <<"sub">>, <<"sub", "b.bin">>}
  /\ fsTree[<<"sub">>].kind = "dir"
  /\ Len(found) = 2
  /\ found[1].webkitRelativePath = "root/sub/b.bin"
  /\ found[2].webkitRelativePath = "root/a.txt"

(* ================ claims: the process-wide configuration =============== *)
\* C20: the process-wide configuration (API credential, base URLs, user
\* identity) is written by initialization alone: it changes only in the step
\* in which a Buildfunctions(config) call resolves, and then all at once, to
\* what the setters write with the answer of the authentication request;
\* every step of create, run, upload, delete, of the probe and of the file
\* upload leaves it as it is.
C20_ConfigWrittenByInitOnly ==
  [][ cfg' # cfg =>
        /\ ipc'.resolved = ipc.resolved + 1
        /\ \E auth \in AuthResponses :
             auth.authenticated /\ cfg' = Configure(cfg, iconf, auth) ]_vars

\* C20 witness: one initialization with the host's own base URLs set the
\* configuration; a CPU sandbox was created, run through its probe and
\* deleted, and the configuration is what the setters wrote.
C20_Witness ==
  /\ ipc = [pending |-> 0, resolved |-> 1, rejected |-> 0]
  /\ \E auth \in AuthResponses :
       auth.sessionToken = "session-A" /\ cfg = Configure(ModuleLoad, iconf, auth)
  /\ cfg.cpuSandbox = [globalApiKey |-> "session-A",
                       globalBaseUrl |-> "https://staging.example"]
  /\ sbKind = "cpu"
  /\ createPc = "live"
  /\ inst.deleted
  /\ Len(hist) >= 1
  /\ Len(calls) = 2
  /\ calls[1].op = "run" /\ calls[1].pc = "returned"
  /\ calls[2].op = "delete" /\ calls[2].pc = "returned"
  /\ calls[2].req.auth = "Bearer session-A"

(* ============ claims: uploadModelFiles, concurrency across files ======= *)
\* A target of maxParallelUploads + 1 parts: its upload takes two batches.
WideTarget ==
  [entry |-> TRUE, signedUrl |-> [k \in 1..(maxParallelUploads + 1) |-> k],
   uploadId |-> 1, numberOfParts |-> 0]

\* One call of uploadModelFiles is about to be made with MaxFiles files that
\* all have targets: the first of maxParallelUploads + 1 bytes and as many
\* parts, every other of one byte and one URL.
InitWide ==
  /\ chunkSize = 1
  /\ margs = [f \in Files |-> NoArgs]
  /\ NoUploads
  /\ files = [k \in Files |-> [size |-> IF k = 1 THEN maxParallelUploads + 1 ELSE 1]]
  /\ target = [k \in Files |->
                 IF k = 1 THEN WideTarget
                 ELSE [entry |-> TRUE, signedUrl |-> <<1>>, uploadId |-> 0,
                       numberOfParts |-> 0]]
  /\ upc = "idle"
  /\ fi = 0
  /\ readSt = [f \in Files |-> "unread"]
  /\ uploadPromises = <<>>
  /\ logged = {}
  /\ NoProbe
  /\ NoWalk
  /\ NoClient

SpecWide == InitWide /\ [][NextFiles]_vars

\* The files whose upload is in flight: dispatched and not settled.
UploadsInFlight == {k \in 1..Len(files) : mpc[k] \in {"await", "finalize"} \/ spc[k] = "inflight"}

\* C21: uploadModelFiles holds no upload back for another: every file read so
\* far that has an upload to make has had it dispatched at once, whatever the
\* number of uploads in flight, so that the uploads of all files can be in
\* flight together (the witness); the part PUTs in flight of each single file
\* never exceed maxParallelUploads.
C21_NoCapAcrossFiles ==
  /\ \A k \in 1..Len(files) :
       (readSt[k] = "read" /\ WellFormedTarget(target[k])) =>
         Dispatched(k) /\ (mpc[k] # "idle" \/ spc[k] # "idle")
  /\ \A f \in Files : InFlight(f) <= maxParallelUploads

\* C21 witness: the uploads of all MaxFiles files are in flight at the same
\* time, the first with a full batch of maxParallelUploads part PUTs and one
\* part still to be issued.
C21_Witness ==
  /\ Len(files) = MaxFiles
  /\ UploadsInFlight = 1..MaxFiles
  /\ InFlight(1) = maxParallelUploads
  /\ Len(puts[1]) = maxParallelUploads
  /\ \A k \in 2..MaxFiles : spc[k] = "inflight"

(* ================= claims: sandbox instances, delete =================== *)
\* The call i of the host has settled.
Settled(i) == calls[i].pc \in {"returned", "threw"}

\* C22: a delete that completes successfully leaves the instance deleted for
\* good; a run or upload called on a deleted instance is rejected at once
\* with INVALID_REQUEST and a delete called on it returns at once, none of
\* them having sent a request; and a call that has settled sends nothing
\* later.  For CPU and GPU sandboxes.
C22_DeletedRejectsLaterCalls ==
  [][ /\ \A i \in DOMAIN calls :
           (calls[i].op = "delete" /\ calls[i].pc = "deleting" /\ calls'[i].pc = "returned")
             => inst'.deleted
      /\ (createPc = "live" /\ inst.deleted) =>
           /\ inst'.deleted
           /\ Len(calls') > Len(calls) =>
                LET c == calls'[Len(calls')] IN
                /\ c.req = NoRequest
                /\ c.op \in {"run", "upload"} => c.pc = "threw" /\ c.err = "INVALID_REQUEST"
                /\ c.op = "delete" => c.pc = "returned" /\ c.err = "none"
      /\ \A i \in DOMAIN calls : Settled(i) => calls'[i] = calls[i] ]_vars

\* C22 witness: the delete of a CPU sandbox was answered 2xx, and the run
\* called after it was rejected with INVALID_REQUEST without a request.
C22_Witness ==
  /\ sbKind = "cpu"
  /\ createPc = "live"
  /\ inst.deleted
  /\ Len(calls) = 2
  /\ calls[1].op = "delete" /\ calls[1].pc = "returned" /\ calls[1].answer = "2xx"
  /\ calls[1].req = Request(inst.baseUrl \o "/api/sdk/sandbox/delete",
                            Bearer(inst.apiKey), <<>>)
  /\ calls[2] = Call("run", "threw", "INVALID_REQUEST", NoRequest)

\* The delete calls of the host that sent a delete request.
DeleteRequests == {i \in DOMAIN calls : calls[i].op = "delete" /\ calls[i].req # NoRequest}

\* C23 as stated: whatever the interleaving of the delete calls on the
\* instance, at most one delete request is sent to the platform.
C23_AsClaimed == Cardinality(DeleteRequests) <= 1

\* C24 as stated: the instance is marked deleted only after a delete request
\* was answered with a 2xx status, and a delete whose request failed or was
\* answered non-2xx has raised an error (the instance staying not-deleted).
C24_AsClaimed ==
  /\ (createPc = "live" /\ inst.deleted) =>
       \E i \in DOMAIN calls : calls[i].op = "delete" /\ calls[i].answer = "2xx"
  /\ \A i \in DOMAIN calls :
       (calls[i].op = "delete" /\ calls[i].answer \in {"failed", "non-2xx"}) =>
         calls[i].pc = "threw"

\* C25 as stated: once a delete call on the instance has completed, no run
\* call sends a request to the sandbox endpoint any more, whether it is
\* called afterwards or was called before and is still waiting in its probe.
C25_AsClaimed ==
  [][ (\E d \in DOMAIN calls : calls[d].op = "delete" /\ calls[d].pc = "returned") =>
        \A i \in DOMAIN calls' :
          (calls'[i].op = "run" /\ calls'[i].req # NoRequest) =>
            (i \in DOMAIN calls /\ calls[i].req = calls'[i].req) ]_vars

(* ================== claims: sandbox instances, run ===================== *)
\* C26 as stated: a run call has returned a RunResult only if the endpoint
\* answered with a 2xx status, and a run call whose request was answered with
\* another status has thrown.
C26_AsClaimed ==
  \A i \in DOMAIN calls :
    calls[i].op = "run" =>
      /\ calls[i].pc = "returned" => calls[i].answer = "2xx"
      /\ calls[i].answer = "non-2xx" => calls[i].pc = "threw"

(* ============ the functions manager: client.functions.findUnique ======== *)
\* Under SpecFind the calls of the host are findUnique calls on the functions
\* manager of a created client, and calls of the function factories
\* CPUFunction and GPUFunction. calls holds for a findUnique call
\*   [op, where, pc, result, err, status]
\* and for a factory call [op, pc, err].
\* pc is "getting" (http.get of the function awaited), "listing" (list()
\* awaited), "returned" or "threw"; result is "function", Null or "none";
\* err is the error thrown (NoError when none) and status the HTTP status of
\* the answer (0 while there is none and when the request failed).

\* The function names and the id the host asks for.
FunctionNames == {"f", "g"}

\* options.where of findUnique: id and name are each absent, empty or given.
WhereOptions == [id : {Undefined, "", "fn-1"}, name : {Undefined, "f"}]

\* mapErrorCode(code, statusCode): the body's code when it is a known one,
\* otherwise the code of the status.
mapErrorCode(code, statusCode) ==
  IF ~Falsy(code) /\ code \in {"UNAUTHORIZED", "NOT_FOUND", "INVALID_REQUEST",
                               "MAX_CAPACITY", "SIZE_LIMIT_EXCEEDED", "VALIDATION_ERROR"}
  THEN code
  ELSE CASE statusCode = 401 -> "UNAUTHORIZED"
         [] statusCode = 404 -> "NOT_FOUND"
         [] statusCode = 400 -> "INVALID_REQUEST"
         [] statusCode = 503 -> "MAX_CAPACITY"
         [] statusCode = 409 -> "SIZE_LIMIT_EXCEEDED"
         [] OTHER -> "UNKNOWN_ERROR"

\* An error object: the class it was constructed with, its code and its
\* statusCode (0 for undefined).
Error(class, code, statusCode) == [class |-> class, code |-> code, statusCode |-> statusCode]

NoError == [class |-> "none", code |-> "none", statusCode |-> 0]

\* BuildfunctionsError.fromResponse(statusCode, body)
fromResponse(statusCode, body) ==
  Error("BuildfunctionsError", mapErrorCode(body.code, statusCode), statusCode)

\* error instanceof NotFoundError
InstanceOfNotFoundError(error) == error.class = "NotFoundError"

\* The answers to a request of the HTTP client: fetch rejects (with an
\* AbortError, another Error, or a value that is no Error), or the platform
\* answers with a status; a 200 carries the names of the deployed functions,
\* another status a body whose code is absent, known or unknown.
HttpAnswers ==
  {[fail |-> f, status |-> 0, code |-> Undefined, names |-> {}] :
     f \in {"AbortError", "Error", "value"}}
  \cup {[fail |-> "none", status |-> 200, code |-> Undefined, names |-> n] :
          n \in SUBSET FunctionNames}
  \cup {[fail |-> "none", status |-> s, code |-> c, names |-> {}] :
          s \in {400, 401, 404, 409, 500, 503},
          c \in {Undefined, "NOT_FOUND", "VALIDATION_ERROR", "E_PLATFORM"}}

\* request(options) settled by answer a: the data, or the error it throws.
HttpRequest(a) ==
  IF a.fail = "AbortError" THEN [ok |-> FALSE, error |-> Error("BuildfunctionsError", "NETWORK_ERROR", 0)]
  ELSE IF a.fail = "Error" THEN [ok |-> FALSE, error |-> Error("BuildfunctionsError", "NETWORK_ERROR", 0)]
  ELSE IF a.fail = "value" THEN [ok |-> FALSE, error |-> Error("BuildfunctionsError", "UNKNOWN_ERROR", 0)]
  ELSE IF a.status >= 200 /\ a.status < 300 THEN [ok |-> TRUE, error |-> NoError]
  ELSE [ok |-> FALSE, error |-> fromResponse(a.status, a)]

FindCall(where, pc, result, err, status) ==
  [op |-> "findUnique", where |-> where, pc |-> pc, result |-> result, err |-> err,
   status |-> status]

\* findUnique(options), to its first await.
CallFindUnique ==
  /\ Len(calls) < MaxCalls
  /\ \E where \in WhereOptions :
       calls' = Append(calls,
         IF ~Falsy(where.id) THEN FindCall(where, "getting", "none", NoError, 0)
         ELSE IF ~Falsy(where.name) THEN FindCall(where, "listing", "none", NoError, 0)
         ELSE FindCall(where, "returned", Null, NoError, 0))
  /\ UNCHANGED <<chunkSize, mvars, svars, uvars, wvars, dvars, pvars, cfg, ipc, iconf, ireq,
                 sbKind, createPc, createErr, creq, cloc, inst>>

\* The request of a findUnique call is answered: by id, the function, null
\* for a NotFoundError, and any other error rethrown; by name, the function
\* of that name in the list or null, and any error of list() thrown.
FindSettles ==
  /\ \E i \in DOMAIN calls, a \in HttpAnswers :
       /\ calls[i].op = "findUnique"
       /\ calls[i].pc \in {"getting", "listing"}
       /\ LET r == HttpRequest(a)
              c == calls[i] IN
          calls' = [calls EXCEPT ![i] =
            IF c.pc = "getting"
            THEN IF r.ok THEN FindCall(c.where, "returned", "function", NoError, a.status)
                 ELSE IF InstanceOfNotFoundError(r.error)
                      THEN FindCall(c.where, "returned", Null, NoError, a.status)
                 ELSE FindCall(c.where, "threw", "none", r.error, a.status)
            ELSE IF r.ok
                 THEN FindCall(c.where, "returned",
                               IF c.where.name \in a.names THEN "function" ELSE Null,
                               NoError, a.status)
                 ELSE FindCall(c.where, "threw", "none", r.error, a.status)]
  /\ UNCHANGED <<chunkSize, mvars, svars, uvars, wvars, dvars, pvars, cfg, ipc, iconf, ireq,
                 sbKind, createPc, createErr, creq, cloc, inst>>

(* ---- CPUFunction, GPUFunction (cpu-function.ts, gpu-function.ts) ---- *)
\* A factory called with valid options: it returns a builder, or throws the
\* validation error 'API key not set' when its module has no credential.
FactoryCall(op, g) ==
  IF Falsy(g.globalApiKey)
  THEN [op |-> op, pc |-> "threw", err |-> Error("ValidationError", "VALIDATION_ERROR", 400)]
  ELSE [op |-> op, pc |-> "returned", err |-> NoError]

CallFactory ==
  /\ Len(calls) < MaxCalls
  /\ \E op \in {"CPUFunction", "GPUFunction"} :
       calls' = Append(calls,
         FactoryCall(op, IF op = "CPUFunction" THEN cfg.cpuFunction ELSE cfg.gpuFunction))
  /\ UNCHANGED <<chunkSize, mvars, svars, uvars, wvars, dvars, pvars, cfg, ipc, iconf, ireq,
                 sbKind, createPc, createErr, creq, cloc, inst>>

NextFind == CallFindUnique \/ FindSettles \/ CallFactory

\* A Buildfunctions(config) call of the host has resolved with a client, and
\* the host calls client.functions.findUnique and the function factories.
InitFind ==
  /\ chunkSize = 1
  /\ margs = [f \in Files |-> NoArgs]
  /\ NoUploads
  /\ NoModelFiles
  /\ NoProbe
  /\ NoWalk
  /\ \E config \in ClientConfigs, auth \in AuthResponses :
       /\ ~Falsy(config.apiKey)
       /\ ~auth.net /\ auth.ok /\ auth.authenticated
       /\ iconf = config
       /\ cfg = Configure(ModuleLoad, config, auth)
       /\ ireq = Request(Coalesce(config.baseUrl, DEFAULT_BASE_URL) \o "/api/sdk/auth",
                         Bearer(config.apiKey), <<>>)
  /\ ipc = [pending |-> 0, resolved |-> 1, rejected |-> 0]
  /\ sbKind = Null
  /\ createPc = "idle"
  /\ createErr = ""
  /\ creq = NoRequest
  /\ cloc = Null
  /\ inst = Null
  /\ calls = <<>>

SpecFind == InitFind /\ [][NextFind]_vars

(* ================= claims: functions manager, findUnique ================ *)
\* C27 as stated: a findUnique call by id whose request the platform answered
\* with 404 has returned null, and one whose request failed in any other way
\* has thrown.
C27_AsClaimed ==
  \A i \in DOMAIN calls :
    (/\ calls[i].op = "findUnique"
     /\ calls[i].pc \in {"returned", "threw"}
     /\ ~Falsy(calls[i].where.id)) =>
      /\ calls[i].status = 404 => (calls[i].pc = "returned" /\ calls[i].result = Null)
      /\ (calls[i].status \notin {404, 200}) => calls[i].pc = "threw"

(* ================= claims: Buildfunctions, the factories ================ *)
\* C28 as stated: once a Buildfunctions(config) call has resolved, no call of
\* CPUFunction or GPUFunction with valid options has thrown, and no
\* CPUSandbox.create or GPUSandbox.create has failed with 'API key not set'.
C28_AsClaimed ==
  ipc.resolved >= 1 =>
    /\ \A i \in DOMAIN calls :
         calls[i].op \in {"CPUFunction", "GPUFunction"} => calls[i].pc = "returned"
    /\ createPc = "threw" =>
         createErr # "API key not set. Initialize Buildfunctions client first."

(* ============ claims: GPUSandbox.create with a local model ============== *)
\* C29 as stated: create of a GPU sandbox with a local model is resolved with
\* an instance only when uploadModelFiles has resolved; when uploadModelFiles
\* has rejected, create has rejected and there is no instance; and when the
\* upload of a model file has failed, the process does not end without create
\* having rejected.
C29_AsClaimed ==
  sbKind = "gpuModel" =>
    /\ createPc = "live" => upc = "resolved"
    /\ upc = "rejected" => (createPc = "threw" /\ inst = Null)
    /\ (proc = "exited" /\ \E f \in Files : spc[f] = "failed" \/ mpc[f] = "failed") =>
         createPc = "threw"

(* ========= claims: uploadModelFiles, rejections without a handler ======= *)
\* C30 as stated: no dispatched file upload has rejected while no rejection
\* handler was attached to its promise.
C30_AsClaimed == \A f \in Range(uploadPromises) : <<f, 0>> \notin unhandled

====
